---------------------------- MODULE Spec2Model ----------------------------
(***************************************************************************)
(* Model of the chesstp network layer of rsoderh-gui: the message codec    *)
(* (src/network/chesstp.rs), the frame scanner skip_until_slice and the    *)
(* connection wrapper ChesstpMessageStream (src/network/mod.rs).           *)
(*                                                                         *)
(* Bytes and characters are integers: a byte is in 0..255, a character is  *)
(* its Unicode scalar value, and a string is the sequence of its UTF-8     *)
(* bytes.  Character literals of the source appear as their ASCII codes,   *)
(* with the character in the comment beside them.                          *)
(***************************************************************************)
EXTENDS Integers, Sequences, FiniteSets, TLC

\* F(v), with v evaluated once before F is applied to its value.
With(v, F(_)) == CHOOSE y \in {F(x) : x \in {v}} : TRUE

Min(a, b) == IF a <= b THEN a ELSE b

\* usize::saturating_sub
saturating_sub(a, b) == IF a >= b THEN a - b ELSE 0

\* The k-th smallest element of a finite set of integers.
Nth(S, k) ==
    With(S, LAMBDA T : CHOOSE i \in T : Cardinality({j \in T : j <= i}) = k)

\* The frame prefix accept() hands to skip_until_slice: b"Chess".
Prefix == <<67, 104, 101, 115, 115>>

\* Size of message_buf in accept() and of every serialized frame.
FrameLen == 128

\* Capacity of the buffer BufReader::new allocates (std DEFAULT_BUF_SIZE).
Capacity == 8192

(***************************************************************************)
(* Option and Result values.                                               *)
(***************************************************************************)
None == [some |-> FALSE]
Some(v) == [some |-> TRUE, val |-> v]
Ok(v) == [ok |-> TRUE, val |-> v]
Err(e) == [ok |-> FALSE, err |-> e]

(***************************************************************************)
(* String primitives of the standard library that the codec calls.         *)
(***************************************************************************)
\* s[i] exists and is a UTF-8 continuation byte (0x80..0xBF).
IsCont(s, i) == i <= Len(s) /\ s[i] \in 128..191

\* Length of the well-formed UTF-8 sequence starting at s[i], 0 if there is none.
Utf8SeqLen(s, i) ==
    With(s[i], LAMBDA b :
      CASE b < 128 -> 1
        [] b \in 194..223 -> IF IsCont(s, i + 1) THEN 2 ELSE 0
        [] b = 224 ->
              IF i + 1 <= Len(s) /\ s[i + 1] \in 160..191 /\ IsCont(s, i + 2)
              THEN 3 ELSE 0
        [] b \in (225..236) \cup (238..239) ->
              IF IsCont(s, i + 1) /\ IsCont(s, i + 2) THEN 3 ELSE 0
        [] b = 237 ->
              IF i + 1 <= Len(s) /\ s[i + 1] \in 128..159 /\ IsCont(s, i + 2)
              THEN 3 ELSE 0
        [] b = 240 ->
              IF i + 1 <= Len(s) /\ s[i + 1] \in 144..191
                 /\ IsCont(s, i + 2) /\ IsCont(s, i + 3) THEN 4 ELSE 0
        [] b \in 241..243 ->
              IF IsCont(s, i + 1) /\ IsCont(s, i + 2) /\ IsCont(s, i + 3)
              THEN 4 ELSE 0
        [] b = 244 ->
              IF i + 1 <= Len(s) /\ s[i + 1] \in 128..143
                 /\ IsCont(s, i + 2) /\ IsCont(s, i + 3) THEN 4 ELSE 0
        [] OTHER -> 0)

\* Byte i continues a well-formed sequence that starts at most 3 bytes earlier.
Covered(s, i) ==
    \E d \in 1..3 :
        /\ i - d >= 1
        /\ s[i - d] \notin 128..191
        /\ \A j \in (i - d + 1)..(i - 1) : s[j] \in 128..191
        /\ Utf8SeqLen(s, i - d) > d

\* Utf8Error::valid_up_to: the length of the longest well-formed prefix.  A
\* byte ends the prefix when it starts no well-formed sequence and continues
\* none.
ValidUpTo(s) ==
    With({i \in 1..Len(s) :
             IF s[i] \in 128..191 THEN ~Covered(s, i) ELSE Utf8SeqLen(s, i) = 0},
         LAMBDA bad : IF bad = {} THEN Len(s) ELSE Nth(bad, 1) - 1)

\* str::from_utf8
from_utf8(s) ==
    With(ValidUpTo(s), LAMBDA n :
      IF n = Len(s) THEN Ok(s) ELSE Err([kind |-> "Utf8Error", valid_up_to |-> n]))

\* The Unicode scalar value encoded by the well-formed sequence at s[i].
CodePoint(s, i) ==
    With(Utf8SeqLen(s, i), LAMBDA l :
      CASE l = 1 -> s[i]
        [] l = 2 -> (s[i] - 192) * 64 + (s[i + 1] - 128)
        [] l = 3 -> (s[i] - 224) * 4096 + (s[i + 1] - 128) * 64 + (s[i + 2] - 128)
        [] OTHER -> (s[i] - 240) * 262144 + (s[i + 1] - 128) * 4096
                    + (s[i + 2] - 128) * 64 + (s[i + 3] - 128))

\* str::chars, collected: the Unicode scalar values of a valid UTF-8 string,
\* one for each byte that is not a continuation byte.
chars(s) ==
    With({i \in 1..Len(s) : s[i] \notin 128..191}, LAMBDA starts :
      SubSeq([k \in 1..Cardinality(starts) |-> CodePoint(s, Nth(starts, k))],
             1, Cardinality(starts)))

\* Index of the first byte of s equal to c, 0 if there is none.
Find(s, c) ==
    With({i \in 1..Len(s) : s[i] = c}, LAMBDA hits :
      IF hits = {} THEN 0 ELSE Nth(hits, 1))

\* str::split_once on a one-byte separator.
split_once(s, c) ==
    With(Find(s, c), LAMBDA i :
      IF i = 0 THEN None
      ELSE Some([head |-> SubSeq(s, 1, i - 1), tail |-> SubSeq(s, i + 1, Len(s))]))

\* str::split on a one-byte separator, collected: one part more than there
\* are separators, part k lying between separators k - 1 and k.
split(s, c) ==
    With({i \in 1..Len(s) : s[i] = c}, LAMBDA seps :
      LET n == Cardinality(seps)
          from(k) == IF k = 1 THEN 1 ELSE Nth(seps, k - 1) + 1
          to(k) == IF k = n + 1 THEN Len(s) ELSE Nth(seps, k) - 1
      IN SubSeq([k \in 1..(n + 1) |-> SubSeq(s, from(k), to(k))], 1, n + 1))

\* char::to_ascii_lowercase ('A'..='Z' to 'a'..='z')
to_ascii_lowercase(c) == IF c \in 65..90 THEN c + 32 ELSE c

\* char::to_ascii_uppercase ('a'..='z' to 'A'..='Z')
to_ascii_uppercase(c) == IF c \in 97..122 THEN c - 32 ELSE c

\* char::is_ascii_uppercase
is_ascii_uppercase(c) == c \in 65..90

\* char::to_digit(radix) for radix <= 36: '0'..'9', then letters of either case.
to_digit(c, radix) ==
    With(CASE c \in 48..57 -> c - 48
           [] c \in 97..122 -> c - 97 + 10
           [] c \in 65..90 -> c - 65 + 10
           [] OTHER -> 36,
         LAMBDA d : IF d < radix THEN Some(d) ELSE None)

\* char::from_digit(num, radix): '0'..'9', then lowercase letters.
from_digit(num, radix) ==
    IF num >= radix THEN None
    ELSE IF num < 10 THEN Some(48 + num) ELSE Some(97 + num - 10)

(***************************************************************************)
(* chess_game.rs: PositionIndex and Position.                              *)
(***************************************************************************)
\* PositionIndex::new whose range pattern is inclusive (0..=8).
PositionIndex_new_inclusive(value) == IF value \in 0..8 THEN Some(value) ELSE None

PositionIndex_new(value) == IF value \in 0..7 THEN Some(value) ELSE None

Position_from_pair(column, row) ==
    IF PositionIndex_new(column).some /\ PositionIndex_new(row).some
    THEN Some([column |-> PositionIndex_new(column).val,
               row |-> PositionIndex_new(row).val])
    ELSE None

Position_new(column, row) == Position_from_pair(column, row)

\* Position::parse that takes the rows '1'..='9' of the move-code match and
\* builds the Position without the validated constructor.
Position_parse_rows_to_nine(string) ==
    With(chars(string), LAMBDA cs :
      IF /\ Len(cs) = 2
         /\ cs[1] \in (97..104) \cup (65..72)
         /\ cs[2] \in 49..57
      THEN Some([column |-> (to_digit(cs[1], 18).val - 10) % 256,
                 row |-> (to_digit(cs[2], 10).val - 1) % 256])
      ELSE None)

\* Position::parse: [a-hA-H][1-8].
Position_parse(string) ==
    With(chars(string), LAMBDA cs :
      IF /\ Len(cs) = 2
         /\ cs[1] \in (97..104) \cup (65..72)
         /\ cs[2] \in 49..56
      THEN IF to_digit(cs[1], 18).some /\ to_digit(cs[2], 10).some
           THEN Position_new((to_digit(cs[1], 18).val - 10) % 256,
                             (to_digit(cs[2], 10).val - 1) % 256)
           ELSE None
      ELSE None)

\* Position::to_string that writes the row index itself as the digit.
Position_to_string_zero_based_row(p, uppercase) ==
    LET column == from_digit(p.column + 10, 18).val
        row == from_digit(p.row, 10).val
    IN <<IF uppercase THEN to_ascii_uppercase(column) ELSE column, row>>

\* Position::to_string that writes the row as two digits ("{:02}").
Position_to_string_two_digit_row(p, uppercase) ==
    LET column == from_digit(p.column + 10, 18).val
        row == from_digit(p.row + 1, 10).val
    IN <<IF uppercase THEN to_ascii_uppercase(column) ELSE column, 48, row>>

\* Position::to_string
Position_to_string(p, uppercase) ==
    LET column == from_digit(p.column + 10, 18).val
        row == from_digit(p.row + 1, 10).val
    IN <<IF uppercase THEN to_ascii_uppercase(column) ELSE column, row>>

\* Position::as_other_color: the row mirrored through PositionIndex::new(7 - row)
\* and unwrap(); a None would panic.
Position_as_other_color(p) ==
    With(PositionIndex_new((7 - p.row) % 256), LAMBDA row :
      IF row.some
      THEN [panicked |-> FALSE, ret |-> [column |-> p.column, row |-> row.val]]
      ELSE [panicked |-> TRUE, ret |-> p])

\* `a as i8 + b` on i8: a sum outside -128..127 panics in a build with
\* overflow checks and wraps in one without.
i8_wrap(n) == ((n + 128) % 256) - 128
i8_overflows(n) == n \notin -128..127

\* Position::translated(translation), for either build of the i8 additions.
Position_translated(p, translation, checked) ==
    LET column == p.column + translation[1]
        row == p.row + translation[2]
    IN IF checked /\ (i8_overflows(column) \/ i8_overflows(row))
       THEN [panicked |-> TRUE, ret |-> None]
       ELSE [panicked |-> FALSE,
             ret |-> Position_new(i8_wrap(column) % 256, i8_wrap(row) % 256)]

(***************************************************************************)
(* chesstp.rs: the board codec.                                            *)
(***************************************************************************)
PieceKinds == {"Pawn", "Knight", "Bishop", "Rook", "Queen", "King"}
Colors == {"White", "Black"}
GamePhases == {"Ongoing", "WhiteWin", "BlackWin", "Draw"}

\* 'p' | 'n' | 'b' | 'r' | 'q' | 'k' | 'P' | 'N' | 'B' | 'R' | 'Q' | 'K'
PieceChars == {112, 110, 98, 114, 113, 107, 80, 78, 66, 82, 81, 75}

\* The kind match with 'n' read as a king.
KindOfChar_knight_as_king(c) ==
    CASE c = 112 -> "Pawn"
      [] c = 110 -> "King"
      [] c = 98 -> "Bishop"
      [] c = 114 -> "Rook"
      [] c = 113 -> "Queen"
      [] c = 107 -> "King"

\* The letter-to-kind match of FenBoardRowPieces::next, on the lowercased letter.
KindOfChar(c) ==
    CASE c = 112 -> "Pawn"      \* 'p'
      [] c = 110 -> "Knight"    \* 'n'
      [] c = 98 -> "Bishop"     \* 'b'
      [] c = 114 -> "Rook"      \* 'r'
      [] c = 113 -> "Queen"     \* 'q'
      [] c = 107 -> "King"      \* 'k'

FenBoardRowPieces_new(row) == [row |-> chars(row), returned_tiles |-> 0]

\* The iterator with `returned_tiles >= empty_tiles_total` as the test for
\* the end of a digit's run: a digit N yields N + 1 empty tiles.
FenBoardRowPieces_next_run_too_long(it) ==
    IF it.row = <<>> THEN None
    ELSE With(it.row[1], LAMBDA c :
           CASE c \in 49..56 ->
                  Some([item |-> Ok(None),
                        it |-> IF it.returned_tiles >= to_digit(c, 10).val
                               THEN [row |-> Tail(it.row), returned_tiles |-> 0]
                               ELSE [row |-> it.row,
                                     returned_tiles |-> it.returned_tiles + 1]])
             [] c \in PieceChars ->
                  Some([item |-> Ok(Some([kind |-> KindOfChar(to_ascii_lowercase(c)),
                                          color |-> IF is_ascii_uppercase(c)
                                                    THEN "White" ELSE "Black"])),
                        it |-> [row |-> Tail(it.row),
                                returned_tiles |-> it.returned_tiles]])
             [] OTHER ->
                  Some([item |-> Err([kind |-> "InvalidTileCharacter", ch |-> c]),
                        it |-> [row |-> Tail(it.row),
                                returned_tiles |-> it.returned_tiles]]))

\* One call of the iterator: None at the end of the row, else the item and
\* the iterator after the call.
FenBoardRowPieces_next(it) ==
    IF it.row = <<>> THEN None
    ELSE With(it.row[1], LAMBDA c :
           CASE c \in 49..56 ->     \* '1'..='8'
                  Some([item |-> Ok(None),
                        it |-> IF it.returned_tiles + 1 >= to_digit(c, 10).val
                               THEN [row |-> Tail(it.row), returned_tiles |-> 0]
                               ELSE [row |-> it.row,
                                     returned_tiles |-> it.returned_tiles + 1]])
             [] c \in PieceChars ->
                  Some([item |-> Ok(Some([kind |-> KindOfChar(to_ascii_lowercase(c)),
                                          color |-> IF is_ascii_uppercase(c)
                                                    THEN "White" ELSE "Black"])),
                        it |-> [row |-> Tail(it.row),
                                returned_tiles |-> it.returned_tiles]])
             [] OTHER ->
                  Some([item |-> Err([kind |-> "InvalidTileCharacter", ch |-> c]),
                        it |-> [row |-> Tail(it.row),
                                returned_tiles |-> it.returned_tiles]]))

\* Iterator::collect over FenBoardRowPieces.
RECURSIVE FenBoardRowPieces_collect(_)
FenBoardRowPieces_collect(it) ==
    With(FenBoardRowPieces_next(it), LAMBDA n :
      IF ~n.some THEN <<>>
      ELSE <<n.val.item>> \o FenBoardRowPieces_collect(n.val.it))

\* Board::new_empty: 9 x 9 vectors; Board::tile and Board::set_tile address
\* the playable cells at indices 1..8.
Board_new_empty ==
    [board |-> [r \in 0..8 |-> [c \in 0..8 |-> "empty"]],
     player |-> [r \in 0..8 |-> [c \in 0..8 |-> " "]]]

\* The kind-to-name match of Board::set_tile.
KindName(kind) ==
    CASE kind = "Pawn" -> "pawn"
      [] kind = "Knight" -> "knight"
      [] kind = "Bishop" -> "bishop"
      [] kind = "Rook" -> "rook"
      [] kind = "Queen" -> "queen"
      [] kind = "King" -> "king"

\* The name-to-kind match of Board::tile.
NameKind(name) ==
    CASE name = "pawn" -> "Pawn"
      [] name = "knight" -> "Knight"
      [] name = "bishop" -> "Bishop"
      [] name = "rook" -> "Rook"
      [] name = "queen" -> "Queen"
      [] name = "king" -> "King"

\* Board::tile
Board_tile(b, tile) ==
    LET name == b.board[tile.row + 1][tile.column + 1]
        who == b.player[tile.row + 1][tile.column + 1]
    IN IF name = "empty" \/ who = " " THEN None
       ELSE Some([kind |-> NameKind(name),
                  color |-> IF who = "w" THEN "White" ELSE "Black"])

\* Board::set_tile indexing the column without the `+ 1` that Board::tile
\* applies.
Board_set_tile_column_unshifted(b, tile, piece) ==
    [board |-> [b.board EXCEPT ![tile.row + 1][tile.column] =
                    IF piece.some THEN KindName(piece.val.kind) ELSE "empty"],
     player |-> [b.player EXCEPT ![tile.row + 1][tile.column] =
                    IF ~piece.some THEN " "
                    ELSE IF piece.val.color = "White" THEN "w" ELSE "b"]]

\* Board::set_tile
Board_set_tile(b, tile, piece) ==
    [board |-> [b.board EXCEPT ![tile.row + 1][tile.column + 1] =
                    IF piece.some THEN KindName(piece.val.kind) ELSE "empty"],
     player |-> [b.player EXCEPT ![tile.row + 1][tile.column + 1] =
                    IF ~piece.some THEN " "
                    ELSE IF piece.val.color = "White" THEN "w" ELSE "b"]]

\* BoardRow reporting the number of characters of the row, digit runs not
\* expanded.
BoardRow_counts_chars(row_str) ==
    With(FenBoardRowPieces_collect(FenBoardRowPieces_new(row_str)), LAMBDA pieces :
      IF Len(pieces) = 8 THEN Ok(pieces)
      ELSE Err([kind |-> "InvalidColumnCount", n |-> Len(chars(row_str))]))

\* The tiles of one '/'-separated row: Err(InvalidColumnCount) unless 8.
BoardRow(row_str) ==
    With(FenBoardRowPieces_collect(FenBoardRowPieces_new(row_str)), LAMBDA pieces :
      IF Len(pieces) = 8 THEN Ok(pieces)
      ELSE Err([kind |-> "InvalidColumnCount", n |-> Len(pieces)]))

\* TileAt without the flip of the row index: text row i at board row i.
TileAt_unflipped(piece_rows, k) ==
    [column_index |-> k % 8, row_index |-> k \div 8,
     piece |-> piece_rows[(k \div 8) + 1].val[(k % 8) + 1]]

\* Tile k (0..63) of the flattened rows, as the loop of Board::from_str
\* enumerates them: ((column_index, row_index), piece).
TileAt(piece_rows, k) ==
    [column_index |-> k % 8, row_index |-> 7 - (k \div 8),
     piece |-> piece_rows[(k \div 8) + 1].val[(k % 8) + 1]]

\* That loop for tiles lo..hi in order: each tile is set with set_tile, and
\* `piece?` leaves the loop with the first InvalidTileCharacter.
RECURSIVE PlaceTiles(_, _, _, _)
PlaceTiles(b, piece_rows, lo, hi) ==
    IF lo = hi
    THEN With(TileAt(piece_rows, lo), LAMBDA t :
           IF ~t.piece.ok THEN Err(t.piece.err)
           ELSE Ok(Board_set_tile(b, Position_new(t.column_index, t.row_index).val,
                                  t.piece.val)))
    ELSE With(PlaceTiles(b, piece_rows, lo, (lo + hi) \div 2), LAMBDA left :
           IF ~left.ok THEN left
           ELSE PlaceTiles(left.val, piece_rows, (lo + hi) \div 2 + 1, hi))

\* Board::from_str reporting the number of '/' separators instead of the
\* number of rows.
Board_from_str_counts_separators(s) ==
    With(Cardinality({i \in 1..Len(s) : s[i] = 47}) + 1, LAMBDA rows :
      IF rows # 8 THEN Err([kind |-> "InvalidRowCount", n |-> rows - 1])
      ELSE With(split(s, 47), LAMBDA row_strs :
           With(<<BoardRow(row_strs[1]), BoardRow(row_strs[2]),
                  BoardRow(row_strs[3]), BoardRow(row_strs[4]),
                  BoardRow(row_strs[5]), BoardRow(row_strs[6]),
                  BoardRow(row_strs[7]), BoardRow(row_strs[8])>>,
                LAMBDA piece_rows :
             With({i \in 1..8 : ~piece_rows[i].ok}, LAMBDA bad :
               IF bad # {} THEN Err(piece_rows[Nth(bad, 1)].err)
               ELSE PlaceTiles(Board_new_empty, piece_rows, 0, 63)))))

\* Board::from_str that looks for an invalid character in all rows before
\* it counts the tiles of any row.
Board_from_str_characters_first(s) ==
    With(Cardinality({i \in 1..Len(s) : s[i] = 47}) + 1, LAMBDA rows :
      IF rows # 8 THEN Err([kind |-> "InvalidRowCount", n |-> rows])
      ELSE With(split(s, 47), LAMBDA row_strs :
           With(FenBoardRowPieces_collect(FenBoardRowPieces_new(row_strs[1]))
                    \o FenBoardRowPieces_collect(FenBoardRowPieces_new(row_strs[2]))
                    \o FenBoardRowPieces_collect(FenBoardRowPieces_new(row_strs[3]))
                    \o FenBoardRowPieces_collect(FenBoardRowPieces_new(row_strs[4]))
                    \o FenBoardRowPieces_collect(FenBoardRowPieces_new(row_strs[5]))
                    \o FenBoardRowPieces_collect(FenBoardRowPieces_new(row_strs[6]))
                    \o FenBoardRowPieces_collect(FenBoardRowPieces_new(row_strs[7]))
                    \o FenBoardRowPieces_collect(FenBoardRowPieces_new(row_strs[8])),
                LAMBDA items :
           With({k \in 1..Len(items) : ~items[k].ok}, LAMBDA invalid :
             IF invalid # {} THEN Err(items[Nth(invalid, 1)].err)
             ELSE With(<<BoardRow(row_strs[1]), BoardRow(row_strs[2]),
                         BoardRow(row_strs[3]), BoardRow(row_strs[4]),
                         BoardRow(row_strs[5]), BoardRow(row_strs[6]),
                         BoardRow(row_strs[7]), BoardRow(row_strs[8])>>,
                       LAMBDA piece_rows :
                  With({i \in 1..8 : ~piece_rows[i].ok}, LAMBDA bad :
                    IF bad # {} THEN Err(piece_rows[Nth(bad, 1)].err)
                    ELSE PlaceTiles(Board_new_empty, piece_rows, 0, 63)))))))

\* <Board as FromStr>::from_str
Board_from_str(s) ==
    With(Cardinality({i \in 1..Len(s) : s[i] = 47}) + 1, LAMBDA rows :  \* '/'
      IF rows # 8 THEN Err([kind |-> "InvalidRowCount", n |-> rows])
      ELSE With(split(s, 47), LAMBDA row_strs :
           With(<<BoardRow(row_strs[1]), BoardRow(row_strs[2]),
                  BoardRow(row_strs[3]), BoardRow(row_strs[4]),
                  BoardRow(row_strs[5]), BoardRow(row_strs[6]),
                  BoardRow(row_strs[7]), BoardRow(row_strs[8])>>,
                LAMBDA piece_rows :
             With({i \in 1..8 : ~piece_rows[i].ok}, LAMBDA bad :
               \* collect::<Result<_, _>>() stops at the first row in error.
               IF bad # {} THEN Err(piece_rows[Nth(bad, 1)].err)
               ELSE PlaceTiles(Board_new_empty, piece_rows, 0, 63)))))

(***************************************************************************)
(* chesstp.rs: the message codec.                                          *)
(***************************************************************************)
\* split_message taking the bytes as text without the UTF-8 check.
split_message_unchecked(buffer) ==
    With(split_once(buffer, 58), LAMBDA parts :
      IF ~parts.some THEN Err([kind |-> "TooFewParts", n |-> 1])
      ELSE Ok([identifier |-> parts.val.head, rest |-> parts.val.tail]))

\* split_message
split_message(buffer) ==
    With(from_utf8(buffer), LAMBDA message :
      IF ~message.ok THEN Err(message.err)
      ELSE With(split_once(message.val, 58), LAMBDA parts :     \* ":"
             IF ~parts.some THEN Err([kind |-> "TooFewParts", n |-> 1])
             ELSE Ok([identifier |-> parts.val.head, rest |-> parts.val.tail])))

\* The promotion match without its 'k' arm: a king is no legal promotion in
\* chess, and a decoder that enforced this would reject the code.
PromotionOfChar_no_king(c) ==
    CASE c = 48 -> Some(None)                \* '0'
      [] c = 112 -> Some(Some("Pawn"))       \* 'p'
      [] c = 110 -> Some(Some("Knight"))     \* 'n'
      [] c = 98 -> Some(Some("Bishop"))      \* 'b'
      [] c = 114 -> Some(Some("Rook"))       \* 'r'
      [] c = 113 -> Some(Some("Queen"))      \* 'q'
      [] OTHER -> None

\* The promotion match of MoveMessage::from_str, on the lowercased character:
\* None where the code returns InvalidMove.
PromotionOfChar(c) ==
    CASE c = 48 -> Some(None)                \* '0'
      [] c = 112 -> Some(Some("Pawn"))       \* 'p'
      [] c = 110 -> Some(Some("Knight"))     \* 'n'
      [] c = 98 -> Some(Some("Bishop"))      \* 'b'
      [] c = 114 -> Some(Some("Rook"))       \* 'r'
      [] c = 113 -> Some(Some("Queen"))      \* 'q'
      [] c = 107 -> Some(Some("King"))       \* 'k'
      [] OTHER -> None

\* The game phase match with the codes of the two wins exchanged.
PhaseOfStr_wins_exchanged(phase_str) ==
    CASE phase_str = <<48, 45, 48>> -> Some("Ongoing")
      [] phase_str = <<49, 45, 48>> -> Some("BlackWin")
      [] phase_str = <<48, 45, 49>> -> Some("WhiteWin")
      [] phase_str = <<49, 45, 49>> -> Some("Draw")
      [] OTHER -> None

\* The game phase match of MoveMessage::from_str: None where the code
\* returns InvalidGamePhase.
PhaseOfStr(phase_str) ==
    CASE phase_str = <<48, 45, 48>> -> Some("Ongoing")      \* "0-0"
      [] phase_str = <<49, 45, 48>> -> Some("WhiteWin")     \* "1-0"
      [] phase_str = <<48, 45, 49>> -> Some("BlackWin")     \* "0-1"
      [] phase_str = <<49, 45, 49>> -> Some("Draw")         \* "1-1"
      [] OTHER -> None

\* The move-code match with the two squares exchanged.
ParseMove_swapped(move_str) ==
    With(chars(move_str), LAMBDA cs :
      IF /\ Len(cs) = 5
         /\ cs[1] \in 65..72
         /\ cs[2] \in 49..57
         /\ cs[3] \in 65..72
         /\ cs[4] \in 49..57
      THEN With(<<Position_parse(<<cs[1], cs[2]>>), Position_parse(<<cs[3], cs[4]>>),
                  PromotionOfChar(to_ascii_lowercase(cs[5]))>>, LAMBDA p :
             IF ~p[1].some \/ ~p[2].some \/ ~p[3].some THEN None
             ELSE Some([source |-> p[2].val, dest |-> p[1].val,
                        promotion |-> p[3].val]))
      ELSE None)

\* The move-code match of MoveMessage::from_str: the source, destination
\* and promotion, or None where the code returns InvalidMove.
ParseMove(move_str) ==
    With(chars(move_str), LAMBDA cs :
      IF /\ Len(cs) = 5
         /\ cs[1] \in 65..72        \* 'A'..='H'
         /\ cs[2] \in 49..57        \* '1'..='9'
         /\ cs[3] \in 65..72        \* 'A'..='H'
         /\ cs[4] \in 49..57        \* '1'..='9'
      THEN With(<<Position_parse(<<cs[1], cs[2]>>), Position_parse(<<cs[3], cs[4]>>),
                  PromotionOfChar(to_ascii_lowercase(cs[5]))>>, LAMBDA p :
             IF ~p[1].some \/ ~p[2].some \/ ~p[3].some THEN None
             ELSE Some([source |-> p[1].val, dest |-> p[2].val,
                        promotion |-> p[3].val]))
      ELSE None)

\* <MoveMessage as FromStr>::from_str
MoveMessage_from_str(s) ==
    With(split(s, 58), LAMBDA parts :       \* ":"
      IF Len(parts) < 2 THEN Err([kind |-> "TooFewParts", n |-> 2])
      ELSE IF Len(parts) < 3 THEN Err([kind |-> "TooFewParts", n |-> 3])
      ELSE IF Len(parts) < 4 THEN Err([kind |-> "TooFewParts", n |-> 4])
      ELSE With(ParseMove(parts[1]), LAMBDA mv :
        IF ~mv.some THEN Err([kind |-> "InvalidMove", part |-> parts[1]])
        ELSE With(PhaseOfStr(parts[2]), LAMBDA phase :
          IF ~phase.some THEN Err([kind |-> "InvalidGamePhase", part |-> parts[2]])
          ELSE With(Board_from_str(parts[3]), LAMBDA b :
            IF ~b.ok
            THEN Err([kind |-> "InvalidBoard", part |-> parts[3], error |-> b.err])
            ELSE Ok([source |-> mv.val.source, dest |-> mv.val.dest,
                     promotion |-> mv.val.promotion, phase |-> phase.val,
                     board |-> b.val])))))

\* QuitMessage::from_str without the check for a padding part.
QuitMessage_from_str_no_padding_check(s) ==
    Ok([message |-> split(s, 58)[1]])

\* <QuitMessage as FromStr>::from_str
QuitMessage_from_str(s) ==
    With(split(s, 58), LAMBDA parts :       \* ":"
      IF Len(parts) < 2 THEN Err([kind |-> "TooFewParts", n |-> 2])
      ELSE Ok([message |-> parts[1]]))

\* "ChessMOVE"
IdMove == <<67, 104, 101, 115, 115, 77, 79, 86, 69>>

\* "ChessQUIT"
IdQuit == <<67, 104, 101, 115, 115, 81, 85, 73, 84>>

\* Message::parse_from
Message_parse_from(buffer) ==
    With(split_message(buffer), LAMBDA message :
      IF ~message.ok THEN Err(message.err)
      ELSE IF message.val.identifier = IdMove
           THEN With(MoveMessage_from_str(message.val.rest), LAMBDA m :
                  IF m.ok THEN Ok([type |-> "Move", move |-> m.val]) ELSE Err(m.err))
      ELSE IF message.val.identifier = IdQuit
           THEN With(QuitMessage_from_str(message.val.rest), LAMBDA q :
                  IF q.ok THEN Ok([type |-> "Quit", quit |-> q.val]) ELSE Err(q.err))
      ELSE Err([kind |-> "InvalidMessageId", id |-> message.val.identifier]))

(***************************************************************************)
(* Serialization.  Message::serialize and the board encoder are called by  *)
(* ChesstpMessageStream::write and by the tests, but their code is not     *)
(* among the sources; they are modelled from the wire format.              *)
(***************************************************************************)
\* The letter of a piece: lowercase for Black, uppercase for White.
PieceChar(piece) ==
    With(CASE piece.kind = "Pawn" -> 112
           [] piece.kind = "Knight" -> 110
           [] piece.kind = "Bishop" -> 98
           [] piece.kind = "Rook" -> 114
           [] piece.kind = "Queen" -> 113
           [] piece.kind = "King" -> 107,
         LAMBDA c : IF piece.color = "White" THEN to_ascii_uppercase(c) ELSE c)

\* Tokens of board row `row` from column `column` on, after `run` empty cells.
RECURSIVE EncodeRow(_, _, _, _)
EncodeRow(b, row, column, run) ==
    IF column > 7 THEN (IF run > 0 THEN <<48 + run>> ELSE <<>>)
    ELSE With(Board_tile(b, [column |-> column, row |-> row]), LAMBDA piece :
           IF piece.some
           THEN (IF run > 0 THEN <<48 + run>> ELSE <<>>)
                \o <<PieceChar(piece.val)>> \o EncodeRow(b, row, column + 1, 0)
           ELSE EncodeRow(b, row, column + 1, run + 1))

\* The eight rows, board row 7 first, joined with '/'.
Board_encode(b) ==
    EncodeRow(b, 7, 0, 0) \o <<47>> \o EncodeRow(b, 6, 0, 0) \o <<47>>
    \o EncodeRow(b, 5, 0, 0) \o <<47>> \o EncodeRow(b, 4, 0, 0) \o <<47>>
    \o EncodeRow(b, 3, 0, 0) \o <<47>> \o EncodeRow(b, 2, 0, 0) \o <<47>>
    \o EncodeRow(b, 1, 0, 0) \o <<47>> \o EncodeRow(b, 0, 0, 0)

\* '0' for no promotion, else the piece letter.
PromotionChar(promotion) ==
    IF promotion.some THEN PieceChar([kind |-> promotion.val, color |-> "Black"])
    ELSE 48

PhaseCode(phase) ==
    CASE phase = "Ongoing" -> <<48, 45, 48>>      \* "0-0"
      [] phase = "WhiteWin" -> <<49, 45, 48>>     \* "1-0"
      [] phase = "BlackWin" -> <<48, 45, 49>>     \* "0-1"
      [] phase = "Draw" -> <<49, 45, 49>>         \* "1-1"

\* The ':'-joined content of a frame, before padding.
Content(m) ==
    IF m.type = "Move"
    THEN IdMove \o <<58>>
         \o Position_to_string(m.move.source, TRUE)
         \o Position_to_string(m.move.dest, TRUE)
         \o <<PromotionChar(m.move.promotion)>> \o <<58>>
         \o PhaseCode(m.move.phase) \o <<58>>
         \o Board_encode(m.move.board) \o <<58>>
    ELSE IdQuit \o <<58>> \o m.quit.message \o <<58>>

\* Message::serialize: the content padded with '0' to FrameLen bytes; content
\* longer than the frame is rejected.
Message_serialize(m) ==
    With(Content(m), LAMBDA content :
      IF Len(content) > FrameLen THEN Err([kind |-> "TooLong", n |-> Len(content)])
      ELSE Ok(content \o [i \in 1..(FrameLen - Len(content)) |-> 48]))

(***************************************************************************)
(* network/mod.rs: the inbound half of the connection.                     *)
(*                                                                         *)
(* A stream s = [wire, arrived, closed] is the inbound byte stream: wire   *)
(* holds every byte the peer's transport accepted, the first `arrived` of  *)
(* them have reached the local socket, and closed says that the peer's     *)
(* end-of-stream has reached it too.  A reader r = [pos, filled] is the    *)
(* BufReader over that socket, in stream offsets: the bytes before pos are *)
(* consumed, its buffer holds wire[pos+1 .. filled], and the socket still  *)
(* queues wire[filled+1 .. arrived].                                       *)
(***************************************************************************)
\* <TcpStream as Read>::read on the non-blocking socket, for up to n bytes.
TcpStream_read(s, r, n) ==
    IF s.arrived = r.filled
    THEN IF s.closed THEN [kind |-> "Ok", n |-> 0] ELSE [kind |-> "WouldBlock"]
    ELSE [kind |-> "Ok", n |-> Min(s.arrived - r.filled, n)]

\* BufReader::fill_buf: the buffered bytes, refilled from the socket only
\* when the buffer is empty.
BufReader_fill_buf(s, r) ==
    IF r.pos < r.filled THEN [kind |-> "Ok", reader |-> r]
    ELSE With(TcpStream_read(s, r, Capacity), LAMBDA rd :
           IF rd.kind = "WouldBlock" THEN [kind |-> "WouldBlock", reader |-> r]
           ELSE [kind |-> "Ok",
                 reader |-> [pos |-> r.pos, filled |-> r.filled + rd.n]])

\* BufReader::consume
BufReader_consume(r, amt) == [pos |-> Min(r.pos + amt, r.filled), filled |-> r.filled]

\* The search with rposition in place of position: the offset of the last
\* match, -1 for None.
WindowsPosition_last(s, r, slice) ==
    With({p \in 0..(r.filled - r.pos - Len(slice)) :
             \A j \in 1..Len(slice) : s.wire[r.pos + p + j] = slice[j]},
         LAMBDA hits : IF hits = {} THEN -1 ELSE Nth(hits, Cardinality(hits)))

\* buf.windows(slice.len()).position(|window| window == slice) on the
\* reader's buffer: the offset of the first match, -1 for None.
WindowsPosition(s, r, slice) ==
    With({p \in 0..(r.filled - r.pos - Len(slice)) :
             \A j \in 1..Len(slice) : s.wire[r.pos + p + j] = slice[j]},
         LAMBDA hits : IF hits = {} THEN -1 ELSE Nth(hits, 1))

\* Advance without the `if advance == 0` correction: nothing is consumed
\* from a buffer shorter than the slice.
Advance_no_progress(buf_len, slice) ==
    saturating_sub(buf_len, saturating_sub(Len(slice), 1))

\* The bytes skip_until_slice consumes when the slice is not in a buffer of
\* buf_len bytes.
Advance(buf_len, slice) ==
    LET keep == saturating_sub(Len(slice), 1)
        advance == saturating_sub(buf_len, keep)
    IN IF advance = 0 THEN Min(buf_len, 1) ELSE advance

\* skip_until_slice with reader.consume(pos + slice.len()): the slice is
\* consumed with the bytes in front of it.
RECURSIVE skip_until_slice_consumes_slice(_, _, _)
skip_until_slice_consumes_slice(s, r, slice) ==
    With(BufReader_fill_buf(s, r), LAMBDA fb :
      IF fb.kind = "WouldBlock"
      THEN [res |-> "None", wb |-> TRUE, reader |-> fb.reader]
      ELSE IF fb.reader.filled - fb.reader.pos = 0
      THEN [res |-> "None", wb |-> FALSE, reader |-> fb.reader]
      ELSE With(WindowsPosition(s, fb.reader, slice), LAMBDA pos :
             IF pos >= 0
             THEN [res |-> "Some", wb |-> FALSE,
                   reader |-> BufReader_consume(fb.reader, pos + Len(slice))]
             ELSE With(BufReader_consume(
                           fb.reader,
                           Advance(fb.reader.filled - fb.reader.pos, slice)),
                       LAMBDA r1 : skip_until_slice_consumes_slice(s, r1, slice))))

\* skip_until_slice: res is "Some" for Ok(Some(())) and "None" for Ok(None);
\* wb tells whether the socket signalled WouldBlock.
RECURSIVE skip_until_slice(_, _, _)
skip_until_slice(s, r, slice) ==
    With(BufReader_fill_buf(s, r), LAMBDA fb :
      IF fb.kind = "WouldBlock"
      THEN [res |-> "None", wb |-> TRUE, reader |-> fb.reader]
      ELSE IF fb.reader.filled - fb.reader.pos = 0
      THEN [res |-> "None", wb |-> FALSE, reader |-> fb.reader]
      ELSE With(WindowsPosition(s, fb.reader, slice), LAMBDA pos :
             IF pos >= 0
             THEN [res |-> "Some", wb |-> FALSE,
                   reader |-> BufReader_consume(fb.reader, pos)]
             ELSE With(BufReader_consume(
                           fb.reader,
                           Advance(fb.reader.filled - fb.reader.pos, slice)),
                       LAMBDA r1 : skip_until_slice(s, r1, slice))))

\* <BufReader as Read>::read into a buffer of n bytes.
BufReader_read(s, r, n) ==
    IF r.pos = r.filled /\ n >= Capacity
    THEN With(TcpStream_read(s, r, n), LAMBDA rd :
           IF rd.kind = "WouldBlock" THEN [kind |-> "WouldBlock", reader |-> r]
           ELSE [kind |-> "Ok", n |-> rd.n,
                 reader |-> [pos |-> r.pos + rd.n, filled |-> r.filled + rd.n]])
    ELSE With(BufReader_fill_buf(s, r), LAMBDA fb :
           IF fb.kind = "WouldBlock" THEN [kind |-> "WouldBlock", reader |-> r]
           ELSE With(Min(n, fb.reader.filled - fb.reader.pos), LAMBDA nread :
                  [kind |-> "Ok", n |-> nread,
                   reader |-> BufReader_consume(fb.reader, nread)]))

\* The loop of the default read_exact: a read error other than Interrupted
\* is returned as it is, and what was read before it stays consumed.
RECURSIVE default_read_exact(_, _, _)
default_read_exact(s, r, n) ==
    IF n = 0 THEN [kind |-> "Ok", reader |-> r]
    ELSE With(BufReader_read(s, r, n), LAMBDA rd :
           IF rd.kind = "WouldBlock" THEN [kind |-> "WouldBlock", reader |-> rd.reader]
           ELSE IF rd.n = 0 THEN [kind |-> "UnexpectedEof", reader |-> rd.reader]
           ELSE default_read_exact(s, rd.reader, n - rd.n))

\* <BufReader as Read>::read_exact: served from the buffer when it holds n
\* bytes, else by the default loop.
BufReader_read_exact(s, r, n) ==
    IF r.filled - r.pos >= n THEN [kind |-> "Ok", reader |-> BufReader_consume(r, n)]
    ELSE default_read_exact(s, r, n)

\* The end of accept() with the parse error swallowed: Ok(None) where the
\* code returns Err.
AcceptParse_swallow(s, start, r) ==
    With(Message_parse_from(SubSeq(s.wire, start + 1, start + FrameLen)),
         LAMBDA parsed :
           IF parsed.ok
           THEN [ret |-> "Some", wb |-> FALSE, start |-> start, reader |-> r,
                 val |-> parsed.val]
           ELSE [ret |-> "None", wb |-> FALSE, start |-> start, reader |-> r])

\* The end of accept(): message_buf, the 128 bytes read from stream offset
\* `start`, is parsed.
AcceptParse(s, start, r) ==
    With(Message_parse_from(SubSeq(s.wire, start + 1, start + FrameLen)),
         LAMBDA parsed :
           IF parsed.ok
           THEN [ret |-> "Some", wb |-> FALSE, start |-> start, reader |-> r,
                 val |-> parsed.val]
           ELSE [ret |-> "Err", wb |-> FALSE, start |-> start, reader |-> r,
                 err |-> parsed.err])

\* accept() without the WouldBlock arm of its read_exact match: the error
\* falls through to `Err(error) => return Err(error.into())`.
accept_no_would_block_arm(s, r) ==
    With(skip_until_slice(s, r, Prefix), LAMBDA sk :
      IF sk.res = "None"
      THEN [ret |-> "None", wb |-> sk.wb, start |-> -1, reader |-> sk.reader]
      ELSE With(BufReader_read_exact(s, sk.reader, FrameLen), LAMBDA rd :
             CASE rd.kind = "WouldBlock" ->
                    [ret |-> "Err", wb |-> TRUE, start |-> sk.reader.pos,
                     reader |-> rd.reader, err |-> [kind |-> "WouldBlock"]]
               [] rd.kind = "UnexpectedEof" ->
                    [ret |-> "Err", wb |-> FALSE, start |-> sk.reader.pos,
                     reader |-> rd.reader, err |-> [kind |-> "UnexpectedEof"]]
               [] OTHER -> AcceptParse(s, sk.reader.pos, rd.reader)))

\* accept() whose read_exact match treats every error like WouldBlock: the
\* end-of-stream inside a frame is Ok(None).
accept_eof_is_none(s, r) ==
    With(skip_until_slice(s, r, Prefix), LAMBDA sk :
      IF sk.res = "None"
      THEN [ret |-> "None", wb |-> sk.wb, start |-> -1, reader |-> sk.reader]
      ELSE With(BufReader_read_exact(s, sk.reader, FrameLen), LAMBDA rd :
             CASE rd.kind = "WouldBlock" ->
                    [ret |-> "None", wb |-> TRUE, start |-> sk.reader.pos,
                     reader |-> rd.reader]
               [] rd.kind = "UnexpectedEof" ->
                    [ret |-> "None", wb |-> FALSE, start |-> sk.reader.pos,
                     reader |-> rd.reader]
               [] OTHER -> AcceptParse(s, sk.reader.pos, rd.reader)))

\* ChesstpMessageStream::accept.  ret is "None" for Ok(None), "Some" for
\* Ok(Some(val)) and "Err" for Err(err); wb tells whether the socket
\* signalled WouldBlock, start is the stream offset at which the prefix was
\* located (-1 when it was not) and reader the BufReader afterwards.
accept(s, r) ==
    With(skip_until_slice(s, r, Prefix), LAMBDA sk :
      IF sk.res = "None"
      THEN [ret |-> "None", wb |-> sk.wb, start |-> -1, reader |-> sk.reader]
      ELSE With(BufReader_read_exact(s, sk.reader, FrameLen), LAMBDA rd :
             CASE rd.kind = "WouldBlock" ->
                    [ret |-> "None", wb |-> TRUE, start |-> sk.reader.pos,
                     reader |-> rd.reader]
               [] rd.kind = "UnexpectedEof" ->
                    [ret |-> "Err", wb |-> FALSE, start |-> sk.reader.pos,
                     reader |-> rd.reader, err |-> [kind |-> "UnexpectedEof"]]
               [] OTHER -> AcceptParse(s, sk.reader.pos, rd.reader)))

\* write() that takes the transport's Ok for success without looking at
\* written_len.
write_ignores_written_len(message, res) ==
    With(Message_serialize(message), LAMBDA serialized :
      IF ~serialized.ok \/ res.kind = "Err" THEN [ret |-> "Err", bytes |-> <<>>]
      ELSE With(Min(res.n, FrameLen), LAMBDA written_len :
             [ret |-> "Ok", bytes |-> SubSeq(serialized.val, 1, written_len)]))

\* write() that sends the first 128 bytes of the content when the message
\* does not fit in a frame.
write_truncates(message, res) ==
    With(Message_serialize(message), LAMBDA serialized :
      IF res.kind = "Err" THEN [ret |-> "Err", bytes |-> <<>>]
      ELSE With(Min(res.n, FrameLen), LAMBDA written_len :
             [ret |-> IF written_len # FrameLen THEN "Err" ELSE "Ok",
              bytes |-> SubSeq(IF serialized.ok THEN serialized.val
                               ELSE Content(message), 1, written_len)]))

\* ChesstpMessageStream::write.  res is what self.writer.write returns for
\* the frame: [kind |-> "Ok", n |-> k] when the transport accepted its first
\* k bytes, [kind |-> "Err"] for an I/O error.  The value is the bytes put on
\* the wire and the result.
write(message, res) ==
    With(Message_serialize(message), LAMBDA serialized :
      IF ~serialized.ok \/ res.kind = "Err" THEN [ret |-> "Err", bytes |-> <<>>]
      ELSE With(Min(res.n, FrameLen), LAMBDA written_len :
             [ret |-> IF written_len # FrameLen THEN "Err" ELSE "Ok",
              bytes |-> SubSeq(serialized.val, 1, written_len)]))

(***************************************************************************)
(* State.                                                                  *)
(***************************************************************************)
VARIABLES
    wire,       \* every byte the peer's transport accepted, in order
    arrived,    \* how many bytes of wire have reached the local socket
    closed,     \* the peer's end-of-stream has reached the local socket
    writes,     \* the peer's write() calls: [start, len, message, ret]
    reader,     \* ChesstpMessageStream.reader, as [pos, filled]
    last,       \* the latest accept() or skip_until_slice call and its outcome
    log,        \* what accept() returned other than Ok(None), in order
    partial,    \* offsets of the prefixes whose 128-byte read hit WouldBlock
    board,      \* codec: the board being set up
    message,    \* codec: the message serialized last
    frame,      \* codec: the result of serializing it
    parsed,     \* codec: the result of Message::parse_from on that frame
    text,       \* decoder: the string handed to a decoder
    decoded,    \* decoder: what the decoder returned for it
    game,       \* session: the GameState of each peer
    chan,       \* session: the frames on their way to each peer, in order
    outlog,     \* session: what each peer did on its connection, in order
    shut,       \* session: the peers that called close()
    over,       \* session: the peers a handler has left with the game ended
    event,      \* session: the latest handler that ran and what it found
    scan        \* an accept() call in progress, one loop iteration at a time

vars == <<wire, arrived, closed, writes, reader, last, log, partial,
          board, message, frame, parsed, text, decoded,
          game, chan, outlog, shut, over, event, scan>>

connVars == <<wire, arrived, closed, writes, reader, last, log, partial>>
codecVars == <<board, message, frame, parsed, text, decoded>>
decodeVars == <<text, decoded>>
gameVars == <<game, chan, outlog, shut, over, event>>

Inbound == [wire |-> wire, arrived |-> arrived, closed |-> closed]

(***************************************************************************)
(* Bounds and inputs.                                                      *)
(***************************************************************************)
\* write() calls the peer makes in one session.
MaxWrites == 2

\* Offsets inside one write at which the transport may split its bytes:
\* inside the prefix and inside the payload.
Cuts == {3, 64}

\* Byte counts the peer's transport may accept from one write() call.
AcceptedLens == {3, 8, FrameLen}

\* "rnbqkbnr/pppppppp/8/8/8/8/PPPPPPPP/RNBQKBNR"
StandardBoardStr ==
    <<114, 110, 98, 113, 107, 98, 110, 114, 47,
      112, 112, 112, 112, 112, 112, 112, 112, 47,
      56, 47, 56, 47, 56, 47, 56, 47,
      80, 80, 80, 80, 80, 80, 80, 80, 47,
      82, 78, 66, 81, 75, 66, 78, 82>>

StandardBoard == Board_from_str(StandardBoardStr).val

Pos(column, row) == [column |-> column, row |-> row]

\* e2 to e4 on the standard board, as in the tests.
MoveE2E4 ==
    [type |-> "Move",
     move |-> [source |-> Pos(4, 1), dest |-> Pos(4, 3), promotion |-> None,
               phase |-> "Ongoing", board |-> StandardBoard]]

\* The message GameUi::quit_event sends: "User exited".
QuitUserExited ==
    [type |-> "Quit",
     quit |-> [message |-> <<85, 115, 101, 114, 32, 101, 120, 105, 116, 101, 100>>]]

PeerMessages == {MoveE2E4, QuitUserExited}

(***************************************************************************)
(* The connection: the peer writes frames, the transport delivers their    *)
(* bytes in chunks, the local side polls accept().                         *)
(***************************************************************************)
NoCall ==
    [op |-> "init", ret |-> "None", wb |-> FALSE, start |-> -1,
     from |-> [pos |-> 0, filled |-> 0], to |-> [pos |-> 0, filled |-> 0],
     avail |-> 0, eof |-> FALSE]

ConnInit ==
    /\ wire = <<>>
    /\ arrived = 0
    /\ closed = FALSE
    /\ writes = <<>>
    /\ reader = [pos |-> 0, filled |-> 0]
    /\ last = NoCall
    /\ log = <<>>
    /\ partial = {}

CodecIdle ==
    /\ board = Board_new_empty
    /\ message = None
    /\ frame = None
    /\ parsed = None
    /\ text = <<>>
    /\ decoded = None

\* No accept() call in progress and none made yet.
NoScan ==
    [pc |-> "idle", need |-> 0, start |-> -1, iters |-> 0, consumed |-> 0,
     looped |-> FALSE, saw |-> "nothing", ret |-> "nothing"]

GameIdle ==
    /\ game = <<>>
    /\ chan = <<>>
    /\ outlog = <<>>
    /\ shut = {}
    /\ over = {}
    /\ event = [op |-> "init"]
    /\ scan = NoScan

Init == ConnInit /\ CodecIdle /\ GameIdle

\* The peer calls write(m) and its transport accepts n bytes.
PeerWrite(m, n) ==
    /\ ~closed
    /\ Len(writes) < MaxWrites
    /\ \E w \in {write(m, [kind |-> "Ok", n |-> n])} :
          /\ wire' = wire \o w.bytes
          /\ writes' = Append(writes, [start |-> Len(wire), len |-> Len(w.bytes),
                                       message |-> m, ret |-> w.ret])
    /\ UNCHANGED <<arrived, closed, reader, last, log, partial>>
    /\ UNCHANGED codecVars
    /\ UNCHANGED <<gameVars, scan>>

\* Stream offsets at which a chunk may end.
ArrivalPoints ==
    {writes[i].start + c : i \in 1..Len(writes), c \in Cuts} \cup {Len(wire)}
    \cup {writes[i].start : i \in 1..Len(writes)}

\* The next chunk reaches the local socket.
Arrive(p) ==
    /\ p \in ArrivalPoints
    /\ arrived < p
    /\ p <= Len(wire)
    /\ arrived' = p
    /\ UNCHANGED <<wire, closed, writes, reader, last, log, partial>>
    /\ UNCHANGED codecVars
    /\ UNCHANGED <<gameVars, scan>>

\* The peer closes the connection and the end-of-stream arrives.
PeerClose ==
    /\ ~closed
    /\ arrived = Len(wire)
    /\ closed' = TRUE
    /\ UNCHANGED <<wire, arrived, writes, reader, last, log, partial>>
    /\ UNCHANGED codecVars
    /\ UNCHANGED <<gameVars, scan>>

\* The local side calls accept().
Accept ==
    /\ \E a \in {accept(Inbound, reader)} :
          /\ reader' = a.reader
          /\ last' = [op |-> "accept", ret |-> a.ret, wb |-> a.wb, start |-> a.start,
                      from |-> reader, to |-> a.reader, avail |-> arrived,
                      eof |-> closed]
          /\ log' = CASE a.ret = "Some" ->
                           Append(log, [ret |-> "Some", start |-> a.start,
                                        val |-> a.val])
                      [] a.ret = "Err" ->
                           Append(log, [ret |-> "Err", start |-> a.start,
                                        err |-> a.err])
                      [] OTHER -> log
          /\ partial' = IF a.ret = "None" /\ a.start >= 0
                        THEN partial \cup {a.start} ELSE partial
    /\ UNCHANGED <<wire, arrived, closed, writes>>
    /\ UNCHANGED codecVars
    /\ UNCHANGED <<gameVars, scan>>

Next ==
    \/ \E m \in PeerMessages, n \in AcceptedLens : PeerWrite(m, n)
    \/ \E p \in 1..(MaxWrites * FrameLen) : Arrive(p)
    \/ PeerClose
    \/ Accept

Spec == Init /\ [][Next]_vars

(***************************************************************************)
(* Properties of the connection.                                           *)
(***************************************************************************)
\* The bytes "Chess" lie at stream offset p.
HasPrefixAt(p) ==
    /\ p >= 0
    /\ p + Len(Prefix) <= Len(wire)
    /\ \A j \in 1..Len(Prefix) : wire[p + j] = Prefix[j]

\* What Message::parse_from makes of the 128 stream bytes from offset p on.
DecodeAt(p) == Message_parse_from(SubSeq(wire, p + 1, p + FrameLen))

\* When the latest call began, 128 bytes that start at a prefix had arrived
\* and were not yet consumed.
WholeFrameAvailable ==
    \E p \in last.from.pos..(last.avail - FrameLen) : HasPrefixAt(p)

\* The messages accept() has returned, in the order of the calls.
Delivered ==
    LET some == SelectSeq(log, LAMBDA e : e.ret = "Some")
    IN [k \in 1..Len(some) |-> some[k].val]

\* accept() has returned Some(m) for the 128 bytes at stream offset p.
ReturnedAt(p, m) ==
    \E k \in 1..Len(log) :
        log[k].ret = "Some" /\ log[k].start = p /\ log[k].val = m

\* Every write() of the peer put a whole frame on the wire.
FramesOnly == \A i \in 1..Len(writes) : writes[i].ret = "Ok"

\* C1: an accept() that hit WouldBlock partway through the 128-byte read of
\* a frame has lost none of its bytes: once the reader has moved past the
\* frame, some accept() has returned the frame's message.
C1_WouldBlockLosesNothing ==
    \A i \in 1..Len(writes) :
        (/\ writes[i].ret = "Ok"
         /\ writes[i].start \in partial
         /\ reader.pos >= writes[i].start + FrameLen)
        => ReturnedAt(writes[i].start, writes[i].message)

\* C2: accept() returns Ok(None) whenever the socket signals WouldBlock, and
\* on an open connection whenever no 128 bytes starting at a "Chess" prefix
\* have arrived; it returns Some(m) only for the m decoded from 128
\* consecutive stream bytes that start at a "Chess" prefix.
C2_NoneUntilWholeFrame ==
    last.op = "accept" =>
        /\ last.wb => last.ret = "None"
        /\ (~last.eof /\ ~WholeFrameAvailable) => last.ret = "None"
        /\ last.ret = "Some" =>
              /\ last.start >= last.from.pos
              /\ HasPrefixAt(last.start)
              /\ last.start + FrameLen <= last.avail
              /\ last.to.pos = last.start + FrameLen
              /\ DecodeAt(last.start) = Ok(log[Len(log)].val)

\* An accept() returned Ok(None) on WouldBlock with a prefix located and fewer
\* than 128 bytes behind it, after an earlier accept() had returned a message.
C2_Witness ==
    /\ last.op = "accept"
    /\ last.wb
    /\ last.ret = "None"
    /\ last.start >= 0
    /\ last.avail < last.start + FrameLen
    /\ \E k \in 1..Len(log) : log[k].ret = "Some"

\* C6: when the peer has written whole frames only and the reader has
\* consumed all of their bytes, the messages accept() returned are the
\* messages written, in the order written, each once.
C6_InOrderEachOnce ==
    (FramesOnly /\ reader.pos = Len(wire))
    => Delivered = [i \in 1..Len(writes) |-> writes[i].message]

\* C7: a whole frame written after a truncated one is still delivered: once
\* the reader has moved past it, some accept() has returned its message.
C7_ValidFrameAfterGarbage ==
    \A i \in 2..Len(writes) :
        (/\ writes[i].ret = "Ok"
         /\ writes[i - 1].ret = "Err"
         /\ reader.pos >= writes[i].start + FrameLen)
        => ReturnedAt(writes[i].start, writes[i].message)

\* C8: when accept() has located a prefix with 128 bytes available from it
\* and these do not decode, it returns Err with the decoder's error and has
\* consumed exactly those 128 bytes, so that the next scan starts after them.
C8_DecodeFailureIsErr ==
    (/\ last.op = "accept"
     /\ last.start >= 0
     /\ last.start + FrameLen <= last.avail
     /\ ~DecodeAt(last.start).ok)
    => /\ last.ret = "Err"
       /\ log[Len(log)].ret = "Err"
       /\ log[Len(log)].err = DecodeAt(last.start).err
       /\ last.to.pos = last.start + FrameLen
       /\ reader = last.to

\* An accept() failed on the 128 bytes that begin with a truncated frame and
\* continue with the next frame, whose remainder is still to be scanned.
C8_Witness ==
    /\ last.op = "accept"
    /\ last.ret = "Err"
    /\ HasPrefixAt(last.start)
    /\ log[Len(log)].err.kind = "InvalidMessageId"
    /\ last.to.pos = last.start + FrameLen
    /\ last.to.pos < Len(wire)

(***************************************************************************)
(* The scanner alone: skip_until_slice called on a reader whose bytes      *)
(* arrive in chunks.                                                        *)
(***************************************************************************)
\* Longest run of other bytes in front of the prefix in a scanned stream.
MaxPad == 2

\* The byte strings of at most n bytes over 'C' and 'x'.
RECURSIVE Pads(_)
Pads(n) ==
    IF n = 0 THEN {<<>>}
    ELSE Pads(n - 1) \cup {Append(p, b) : p \in Pads(n - 1), b \in {67, 120}}

\* What may follow the prefix: nothing, one byte, or the prefix once more.
Tails == {<<>>, <<120>>, Prefix}

\* The scanned streams: some with the prefix, some with only a part of it.
ScanWires ==
    {a \o Prefix \o b : a \in Pads(MaxPad), b \in Tails}
    \cup {a \o SubSeq(Prefix, 1, 3) \o <<120>> : a \in Pads(MaxPad)}

ScanInit ==
    /\ wire \in ScanWires
    /\ arrived = 0
    /\ closed = FALSE
    /\ writes = <<>>
    /\ reader = [pos |-> 0, filled |-> 0]
    /\ last = NoCall
    /\ log = <<>>
    /\ partial = {}
    /\ CodecIdle
    /\ GameIdle

\* The next n bytes of the stream reach the reader's source.
ScanArrive(n) ==
    /\ arrived + n <= Len(wire)
    /\ arrived' = arrived + n
    /\ UNCHANGED <<wire, closed, writes, reader, last, log, partial>>
    /\ UNCHANGED codecVars
    /\ UNCHANGED <<gameVars, scan>>

\* The stream ends.
ScanClose ==
    /\ ~closed
    /\ arrived = Len(wire)
    /\ closed' = TRUE
    /\ UNCHANGED <<wire, arrived, writes, reader, last, log, partial>>
    /\ UNCHANGED codecVars
    /\ UNCHANGED <<gameVars, scan>>

\* skip_until_slice(&mut reader, b"Chess") is called.
Skip ==
    /\ \E k \in {skip_until_slice(Inbound, reader, Prefix)} :
          /\ reader' = k.reader
          /\ last' = [op |-> "skip", ret |-> k.res, wb |-> k.wb,
                      start |-> IF k.res = "Some" THEN k.reader.pos ELSE -1,
                      from |-> reader, to |-> k.reader, avail |-> arrived,
                      eof |-> closed]
    /\ UNCHANGED <<wire, arrived, closed, writes, log, partial>>
    /\ UNCHANGED codecVars
    /\ UNCHANGED <<gameVars, scan>>

ScanNext ==
    \/ \E n \in 1..(MaxPad + 2 * Len(Prefix)) : ScanArrive(n)
    \/ ScanClose
    \/ Skip

ScanSpec == ScanInit /\ [][ScanNext]_vars

(***************************************************************************)
(* Properties of the scanner.                                              *)
(***************************************************************************)
\* The least offset in lo..(hi - 5) at which the prefix lies, -1 if none.
FirstOccurrence(lo, hi) ==
    LET hits == {p \in lo..(hi - Len(Prefix)) : HasPrefixAt(p)}
    IN IF hits = {} THEN -1 ELSE CHOOSE p \in hits : \A q \in hits : p <= q

\* The outcome of one call with the whole stream delivered as one chunk.
OneChunk ==
    skip_until_slice([wire |-> wire, arrived |-> Len(wire), closed |-> FALSE],
                     [pos |-> 0, filled |-> 0], Prefix)

\* The stream offset up to which the latest call's first fill_buf reached:
\* the end of a buffer that held bytes, else of what had arrived.
BufferedEnd ==
    IF last.from.pos < last.from.filled THEN last.from.filled ELSE last.avail

\* C3: a call made when the last chunk has arrived ends as one call on the
\* whole stream in one chunk does, with the same result and the same bytes
\* left; when the stream contains the prefix, it returns found with the
\* reader at the first occurrence.
C3_ChunkingIsInvisible ==
    (last.op = "skip" /\ last.avail = Len(wire))
    => /\ last.ret = OneChunk.res
       /\ last.to.pos = OneChunk.reader.pos
       /\ FirstOccurrence(0, Len(wire)) >= 0
          => (last.ret = "Some" /\ last.to.pos = FirstOccurrence(0, Len(wire)))

\* C4: a call that has not found the prefix has left the last
\* prefix_len - 1 bytes received unconsumed: of a window of buffered_len
\* bytes it has discarded at most max(0, buffered_len - (prefix_len - 1)).
C4_KeepsTrailingBytes ==
    (last.op = "skip" /\ last.ret = "None")
    => last.to.pos - last.from.pos
         <= saturating_sub(last.avail - last.from.pos, Len(Prefix) - 1)

\* C5: when the bytes buffered for a call contain the prefix, the call
\* returns found, has consumed exactly the bytes in front of the first
\* occurrence, and the prefix and all that followed it stay buffered.
C5_StopsAtFirstOccurrence ==
    (last.op = "skip" /\ FirstOccurrence(last.from.pos, BufferedEnd) >= 0)
    => /\ last.ret = "Some"
       /\ last.to.pos = FirstOccurrence(last.from.pos, BufferedEnd)
       /\ last.to.filled = BufferedEnd
       /\ reader = last.to

\* A call consumed bytes in front of the prefix and stopped at its first
\* occurrence, with a second occurrence behind it in the buffer.
C5_Witness ==
    /\ last.op = "skip"
    /\ last.ret = "Some"
    /\ last.to.pos > last.from.pos
    /\ HasPrefixAt(last.to.pos)
    /\ HasPrefixAt(last.to.pos + Len(Prefix))
    /\ last.to.filled = last.to.pos + 2 * Len(Prefix)

(***************************************************************************)
(* The codec alone: a board is set up with set_tile, then one message is   *)
(* serialized and the frame is handed to Message::parse_from.              *)
(***************************************************************************)
\* a1, e2, e4 and h8
SampleSquares == {Pos(0, 0), Pos(4, 1), Pos(4, 3), Pos(7, 7)}

\* The tiles set_tile is called on: a1, b1 and h8.
EditTiles == {Pos(0, 0), Pos(1, 0), Pos(7, 7)}

\* The values it stores there.
EditPieces ==
    {None, Some([kind |-> "Queen", color |-> "White"]),
     Some([kind |-> "Knight", color |-> "Black"])}

Promotions == {None} \cup {Some(k) : k \in PieceKinds}

\* Quit texts: empty, "User exited", the non-ASCII text of the tests
\* ("I need hëlp =( " and two regional indicators), "a:b", and 118 times
\* 'x', one byte more than a frame has room for.
QuitTexts ==
    {<<>>,
     <<85, 115, 101, 114, 32, 101, 120, 105, 116, 101, 100>>,
     <<73, 32, 110, 101, 101, 100, 32, 104, 195, 171, 108, 112, 32, 61, 40, 32,
       240, 159, 135, 184, 240, 159, 135, 170>>,
     <<97, 58, 98>>,
     [i \in 1..(FrameLen - 10) |-> 120]}

CodecInit ==
    /\ board \in {Board_new_empty, StandardBoard}
    /\ message = None
    /\ frame = None
    /\ parsed = None
    /\ text = <<>>
    /\ decoded = None
    /\ ConnInit
    /\ GameIdle

\* board.set_tile(tile, piece), while the board is being set up.
SetTile(tile, piece) ==
    /\ ~message.some
    /\ board' = Board_set_tile(board, tile, piece)
    /\ UNCHANGED <<message, frame, parsed>>
    /\ UNCHANGED decodeVars
    /\ UNCHANGED connVars
    /\ UNCHANGED <<gameVars, scan>>

\* The frame serialize() makes of m and, when it made one, what parse_from
\* makes of that frame.
Sent(m) ==
    With(Message_serialize(m), LAMBDA f :
      [frame |-> Some(f),
       parsed |-> IF f.ok THEN Some(Message_parse_from(f.val)) ELSE None])

\* Message::Move(MoveMessage {source, dest, promotion, phase, board}) is
\* serialized and the frame is parsed.
RoundTripMove(source, dest, promotion, phase) ==
    /\ ~message.some
    /\ \E m \in {[type |-> "Move",
                  move |-> [source |-> source, dest |-> dest,
                            promotion |-> promotion, phase |-> phase,
                            board |-> board]]} :
          \E sent \in {Sent(m)} :
              /\ message' = Some(m)
              /\ frame' = sent.frame
              /\ parsed' = sent.parsed
    /\ UNCHANGED board
    /\ UNCHANGED decodeVars
    /\ UNCHANGED connVars
    /\ UNCHANGED <<gameVars, scan>>

\* Message::Quit(QuitMessage {message: quit_text}) is serialized and the frame is
\* parsed.
RoundTripQuit(quit_text) ==
    /\ ~message.some
    /\ \E m \in {[type |-> "Quit", quit |-> [message |-> quit_text]]} :
          \E sent \in {Sent(m)} :
              /\ message' = Some(m)
              /\ frame' = sent.frame
              /\ parsed' = sent.parsed
    /\ UNCHANGED board
    /\ UNCHANGED decodeVars
    /\ UNCHANGED connVars
    /\ UNCHANGED <<gameVars, scan>>

CodecNext ==
    \/ \E tile \in EditTiles, piece \in EditPieces : SetTile(tile, piece)
    \/ \E source \in SampleSquares, dest \in SampleSquares,
          promotion \in Promotions, phase \in GamePhases :
          RoundTripMove(source, dest, promotion, phase)
    \/ \E quit_text \in QuitTexts : RoundTripQuit(quit_text)

CodecSpec == CodecInit /\ [][CodecNext]_vars

(***************************************************************************)
(* Properties of the codec.                                                *)
(***************************************************************************)
\* C9: a serialized move message is a frame of 128 bytes that parse_from
\* decodes to Ok of the same message: source, destination, promotion, phase
\* and board all come back as they were.
C9_MoveRoundTrip ==
    (message.some /\ message.val.type = "Move")
    => /\ frame.val.ok
       /\ Len(frame.val.val) = FrameLen
       /\ parsed = Some(Ok(message.val))

\* A move with a king promotion, in phase Draw, on a board that set_tile has
\* edited at both ends of its first row, came back as it was.
C9_Witness ==
    /\ message.some
    /\ message.val.type = "Move"
    /\ message.val.move.promotion = Some("King")
    /\ message.val.move.phase = "Draw"
    /\ message.val.move.source # message.val.move.dest
    /\ Board_tile(board, Pos(0, 0)) = Some([kind |-> "Knight", color |-> "Black"])
    /\ Board_tile(board, Pos(1, 0)) = None
    /\ Board_tile(board, Pos(7, 0)).some
    /\ parsed = Some(Ok(message.val))

\* C10: a serialized quit message whose text fits in the frame is decoded by
\* parse_from to Ok of the same message, with the text as it was.
C10_QuitRoundTrip ==
    (message.some /\ message.val.type = "Quit" /\ frame.val.ok)
    => parsed = Some(Ok(message.val))

(***************************************************************************)
(* The sender alone: write() is called with messages of every kind and the *)
(* transport accepts all of the frame, a part of it, or fails.             *)
(***************************************************************************)
\* What self.writer.write may return for the frame.
WriteResults ==
    {[kind |-> "Ok", n |-> n] : n \in AcceptedLens} \cup {[kind |-> "Err"]}

\* The messages handed to write(): a move and the quit texts.
SentMessages ==
    {MoveE2E4} \cup {[type |-> "Quit", quit |-> [message |-> t]] : t \in QuitTexts}

\* write(m) is called and the transport answers res.
Write(m, res) ==
    /\ Len(writes) < MaxWrites
    /\ \E w \in {write(m, res)} :
          /\ wire' = wire \o w.bytes
          /\ writes' = Append(writes, [start |-> Len(wire), len |-> Len(w.bytes),
                                       message |-> m, ret |-> w.ret, res |-> res])
    /\ UNCHANGED <<arrived, closed, reader, last, log, partial>>
    /\ UNCHANGED codecVars
    /\ UNCHANGED <<gameVars, scan>>

WriteNext == \E m \in SentMessages, res \in WriteResults : Write(m, res)

WriteSpec == Init /\ [][WriteNext]_vars

(***************************************************************************)
(* Properties of the sender.                                               *)
(***************************************************************************)
\* The bytes write call i put on the wire.
Written(i) == SubSeq(wire, writes[i].start + 1, writes[i].start + writes[i].len)

\* C11: a write() of a message that fits, on a transport that reports no
\* error, has put all 128 bytes of the frame on the wire: the peer never
\* receives only a part of a frame from a call.
C11_WritesWholeFrame ==
    \A i \in 1..Len(writes) :
        (writes[i].res.kind = "Ok" /\ Len(Content(writes[i].message)) <= FrameLen)
        => writes[i].len = FrameLen

\* C12: write() returns Ok(()) only when the transport accepted all 128
\* bytes of the frame; when the transport accepted fewer or reported an I/O
\* error, it returns Err.
C12_OkOnlyForWholeFrame ==
    \A i \in 1..Len(writes) :
        /\ writes[i].ret = "Ok"
           => /\ writes[i].res.kind = "Ok"
              /\ writes[i].res.n = FrameLen
              /\ writes[i].len = FrameLen
        /\ (writes[i].res.kind = "Err" \/ writes[i].res.n < FrameLen)
           => writes[i].ret = "Err"

\* After a write() that succeeded, one was cut short after 8 bytes: it put
\* these 8 bytes on the wire and returned Err.
C12_Witness ==
    /\ Len(writes) = 2
    /\ writes[1].ret = "Ok"
    /\ writes[2].res = [kind |-> "Ok", n |-> 8]
    /\ writes[2].len = 8
    /\ writes[2].ret = "Err"
    /\ Len(wire) = FrameLen + 8

MaxRows == 9

\* Rows of a board string: well-formed ones ("8", "rnbqkbnr", "PPPP1PPP",
\* "4P3", "44"), rows of 6, 9 and 0 columns ("PPPP1P", "PPPP2PPP", ""), and
\* rows with a character that stands for no tile ("4x3", "pppp9ppp", "9",
\* "0ppppppp", and "pppp", U+00E9, "ppp").
SampleRows ==
    {<<56>>,
     <<114, 110, 98, 113, 107, 98, 110, 114>>,
     <<80, 80, 80, 80, 49, 80, 80, 80>>,
     <<52, 80, 51>>,
     <<52, 52>>,
     <<80, 80, 80, 80, 49, 80>>,
     <<80, 80, 80, 80, 50, 80, 80, 80>>,
     <<>>,
     <<52, 120, 51>>,
     <<112, 112, 112, 112, 57, 112, 112, 112>>,
     <<57>>,
     <<48, 112, 112, 112, 112, 112, 112, 112>>,
     <<112, 112, 112, 112, 195, 169, 112, 112, 112>>}

\* The positions (1-based) of the rows that vary in a board string.
RowSlots == {1, 2, 8}

\* The rows joined with '/'.
RECURSIVE JoinRows(_)
JoinRows(rows) ==
    IF Len(rows) = 1 THEN rows[1]
    ELSE rows[1] \o <<47>> \o JoinRows(Tail(rows))

\* The board strings decoded: n rows, all "8" but for two slots that hold
\* sample rows, and the standard starting position.
BoardStrs ==
    {JoinRows([k \in 1..n |-> IF k = i THEN a ELSE IF k = j THEN b ELSE <<56>>]) :
        n \in 1..MaxRows, i \in RowSlots, j \in RowSlots,
        a \in SampleRows, b \in SampleRows}
    \cup {StandardBoardStr}

BoardInit ==
    /\ text \in BoardStrs
    /\ decoded = None
    /\ board = Board_new_empty
    /\ message = None
    /\ frame = None
    /\ parsed = None
    /\ ConnInit
    /\ GameIdle

\* text.parse::<Board>()
DecodeBoard ==
    /\ ~decoded.some
    /\ \E d \in {Board_from_str(text)} :
          /\ decoded' = Some(d)
          /\ board' = IF d.ok THEN d.val ELSE board
    /\ UNCHANGED <<text, message, frame, parsed>>
    /\ UNCHANGED connVars
    /\ UNCHANGED <<gameVars, scan>>

\* The decoded board is encoded.
EncodeBoard ==
    /\ decoded.some
    /\ decoded.val.ok
    /\ ~frame.some
    /\ \E e \in {Board_encode(board)} : frame' = Some(Ok(e))
    /\ UNCHANGED <<text, decoded, board, message, parsed>>
    /\ UNCHANGED connVars
    /\ UNCHANGED <<gameVars, scan>>

BoardNext == DecodeBoard \/ EncodeBoard

BoardSpec == BoardInit /\ [][BoardNext]_vars


\* The '/'-separated rows of a board string, in text order.
TextRows == split(text, 47)

\* C14: once a board string whose number of '/'-separated rows n is not 8 has
\* been decoded, the result is Err(InvalidRowCount(n)), whatever its rows
\* contain.
C14_WrongRowCount ==
    (decoded.some /\ Len(TextRows) # 8)
        => decoded.val = Err([kind |-> "InvalidRowCount", n |-> Len(TextRows)])

\* Nine rows, one of them with the character 'x' and one with 9 columns,
\* were decoded to InvalidRowCount(9).
C14_Witness ==
    /\ decoded.some
    /\ Len(TextRows) = 9
    /\ TextRows[1] = <<52, 120, 51>>
    /\ TextRows[2] = <<80, 80, 80, 80, 50, 80, 80, 80>>
    /\ decoded.val = Err([kind |-> "InvalidRowCount", n |-> 9])


\* The characters that stand for tiles: p n b r q k, P N B R Q K and 1..8.
TileChars == {112, 110, 98, 114, 113, 107, 80, 78, 66, 82, 81, 75} \cup (49..56)

\* Every character of the board string is a tile character or '/'.
OnlyTileChars == \A i \in 1..Len(text) : text[i] \in TileChars \cup {47}

\* The columns of a row of tile characters: a digit N counts N, a letter 1.
RECURSIVE ColumnTotal(_)
ColumnTotal(row) ==
    IF row = <<>> THEN 0
    ELSE (IF row[1] \in 49..56 THEN row[1] - 48 ELSE 1) + ColumnTotal(Tail(row))

\* The rows (1-based, text order) that do not total 8 columns.
WrongRows == {i \in 1..Len(TextRows) : ColumnTotal(TextRows[i]) # 8}

\* C15: once an 8-row board string of tile characters in which some row does
\* not total 8 columns has been decoded, the result is
\* Err(InvalidColumnCount(c)) with c the column total of the first such row.
C15_WrongColumnCount ==
    (decoded.some /\ OnlyTileChars /\ Len(TextRows) = 8 /\ WrongRows # {})
        => \E i \in WrongRows :
              /\ \A k \in WrongRows : i <= k
              /\ decoded.val = Err([kind |-> "InvalidColumnCount",
                                    n |-> ColumnTotal(TextRows[i])])

\* Rows 2 and 8 alone are wrong, with 6 and 9 columns: the decoder returned
\* InvalidColumnCount(6).
C15_Witness ==
    /\ decoded.some
    /\ OnlyTileChars
    /\ Len(TextRows) = 8
    /\ WrongRows = {2, 8}
    /\ ColumnTotal(TextRows[2]) = 6
    /\ ColumnTotal(TextRows[8]) = 9
    /\ decoded.val = Err([kind |-> "InvalidColumnCount", n |-> 6])


\* The characters of the board string that stand for no tile.
InvalidChars == {c \in {chars(text)[i] : i \in 1..Len(chars(text))} : c \notin TileChars \cup {47}}

\* C16: once a board string that contains a character outside
\* [pnbrqkPNBRQK1-8] has been decoded, the result is no board but
\* Err(InvalidTileCharacter(c)) with c such a character of the string.
C16_InvalidTileCharacter ==
    (decoded.some /\ InvalidChars # {})
        => /\ ~decoded.val.ok
           /\ decoded.val.err.kind = "InvalidTileCharacter"
           /\ decoded.val.err.ch \in InvalidChars


\* The board string is well-formed: 8 rows of tile characters, each of
\* 8 columns.
WellFormed == OnlyTileChars /\ Len(TextRows) = 8 /\ WrongRows = {}

\* The piece a letter stands for.
PieceOfLetter(c) ==
    CASE c = 112 -> [kind |-> "Pawn", color |-> "Black"]
      [] c = 110 -> [kind |-> "Knight", color |-> "Black"]
      [] c = 98 -> [kind |-> "Bishop", color |-> "Black"]
      [] c = 114 -> [kind |-> "Rook", color |-> "Black"]
      [] c = 113 -> [kind |-> "Queen", color |-> "Black"]
      [] c = 107 -> [kind |-> "King", color |-> "Black"]
      [] c = 80 -> [kind |-> "Pawn", color |-> "White"]
      [] c = 78 -> [kind |-> "Knight", color |-> "White"]
      [] c = 66 -> [kind |-> "Bishop", color |-> "White"]
      [] c = 82 -> [kind |-> "Rook", color |-> "White"]
      [] c = 81 -> [kind |-> "Queen", color |-> "White"]
      [] c = 75 -> [kind |-> "King", color |-> "White"]

\* The tiles of a row of tile characters, each digit N expanded into N
\* empty cells.
RECURSIVE Cells(_)
Cells(row) ==
    IF row = <<>> THEN <<>>
    ELSE (IF row[1] \in 49..56 THEN [k \in 1..(row[1] - 48) |-> None]
          ELSE <<Some(PieceOfLetter(row[1]))>>) \o Cells(Tail(row))

\* The standard starting position, by board column and row (0-based).
StartingPiece(column, row) ==
    LET back == <<"Rook", "Knight", "Bishop", "Queen", "King", "Bishop", "Knight", "Rook">>
    IN CASE row = 0 -> Some([kind |-> back[column + 1], color |-> "White"])
         [] row = 1 -> Some([kind |-> "Pawn", color |-> "White"])
         [] row = 6 -> Some([kind |-> "Pawn", color |-> "Black"])
         [] row = 7 -> Some([kind |-> back[column + 1], color |-> "Black"])
         [] OTHER -> None

\* C17: a well-formed board string decodes to a board whose tile at column j,
\* row 7 - i is the j-th tile (0-based, digits expanded) of the i-th row of
\* the string, lowercase letters giving Black pieces and uppercase letters
\* White ones; the standard string decodes to the standard starting position.
C17_TilePlacement ==
    (decoded.some /\ WellFormed)
        => /\ decoded.val.ok
           /\ \A i \in 0..7, j \in 0..7 :
                 Board_tile(decoded.val.val, Pos(j, 7 - i)) = Cells(TextRows[i + 1])[j + 1]
           /\ text = StandardBoardStr
                 => \A column \in 0..7, row \in 0..7 :
                       Board_tile(decoded.val.val, Pos(column, row))
                           = StartingPiece(column, row)

\* "rnbqkbnr/8/8/8/8/8/8/4P3" was decoded: a black rook on a8, a black
\* king on e8, a white pawn on e1 and nothing on e2.
C17_Witness ==
    /\ decoded.some
    /\ WellFormed
    /\ TextRows[1] = <<114, 110, 98, 113, 107, 98, 110, 114>>
    /\ TextRows[8] = <<52, 80, 51>>
    /\ decoded.val.ok
    /\ Board_tile(decoded.val.val, Pos(0, 7)) = Some([kind |-> "Rook", color |-> "Black"])
    /\ Board_tile(decoded.val.val, Pos(4, 7)) = Some([kind |-> "King", color |-> "Black"])
    /\ Board_tile(decoded.val.val, Pos(4, 0)) = Some([kind |-> "Pawn", color |-> "White"])
    /\ Board_tile(decoded.val.val, Pos(4, 1)) = None


\* No two adjacent characters of the string are digits.
NoAdjacentDigits(s) ==
    \A i \in 1..(Len(s) - 1) : ~(s[i] \in 48..57 /\ s[i + 1] \in 48..57)

\* The board string is well-formed and its empty runs are merged.
Canonical == WellFormed /\ NoAdjacentDigits(text)

\* C18: the encoding of a decoded board has no two adjacent digits, decodes
\* to that board again, and is the decoded string itself when that string
\* was canonical.
C18_EncodingCanonicalLossless ==
    frame.some
        => /\ NoAdjacentDigits(frame.val.val)
           /\ Board_from_str(frame.val.val) = Ok(board)
           /\ Canonical => frame.val.val = text

\* The canonical string "rnbqkbnr/PPPP1PPP/8/8/8/8/8/8" was decoded and
\* the board encoded to that string.
C18_Witness ==
    /\ frame.some
    /\ Canonical
    /\ TextRows[1] = <<114, 110, 98, 113, 107, 98, 110, 114>>
    /\ TextRows[2] = <<80, 80, 80, 80, 49, 80, 80, 80>>
    /\ frame.val.val = text
    /\ Board_tile(board, Pos(3, 6)) = Some([kind |-> "Pawn", color |-> "White"])
    /\ Board_tile(board, Pos(4, 6)) = None

(***************************************************************************)
(* The Move payload decoder alone: the text after "ChessMOVE:" is parsed   *)
(* with MoveMessage::from_str.                                             *)
(***************************************************************************)
\* Squares of a move-code: "A1", "E2", "E7", "H8", and the malformed "I1",
\* "a1", "@1", "A0", "A9", "H9".
SquareStrs ==
    {<<65, 49>>, <<69, 50>>, <<69, 55>>, <<72, 56>>,
     <<73, 49>>, <<97, 49>>, <<64, 49>>, <<65, 48>>, <<65, 57>>, <<72, 57>>}

\* Promotion parts of a move-code: '0', the piece letters in both cases,
\* 'x', '1', U+00E9, nothing at all, and the two characters "0q".
PromotionStrs ==
    {<<c>> : c \in {48, 112, 110, 98, 114, 113, 107, 80, 78, 66, 82, 81, 75, 120, 49}}
    \cup {<<195, 169>>, <<>>, <<48, 113>>}

\* Phase-codes of a Move payload: the four of the protocol, and "", "0-2",
\* "2-0", "00", "0-0-", "1-1 ", "O-O", "-".
PhaseStrs ==
    {<<48, 45, 48>>, <<49, 45, 48>>, <<48, 45, 49>>, <<49, 45, 49>>,
     <<>>, <<48, 45, 50>>, <<50, 45, 48>>, <<48, 48>>, <<48, 45, 48, 45>>,
     <<49, 45, 49, 32>>, <<79, 45, 79>>, <<45>>}

\* Board parts of a Move payload: the standard board and the one-row "8".
BoardParts == {StandardBoardStr, <<56>>}

\* move-code ':' phase-code ':' board ':' padding
MovePayload(move_str, phase_str, board_str) ==
    move_str \o <<58>> \o phase_str \o <<58>> \o board_str \o <<58, 48, 48, 48>>

\* The payloads decoded: every move-code with an ongoing game on the
\* standard board, and three move-codes ("E2E20", "E7H8q", "A9E20") with
\* every phase-code and board part.
MovePayloads ==
    {MovePayload(a \o b \o p, <<48, 45, 48>>, StandardBoardStr) :
        a \in SquareStrs, b \in SquareStrs, p \in PromotionStrs}
    \cup {MovePayload(mv, ph, bd) :
            mv \in {<<69, 50, 69, 50, 48>>, <<69, 55, 72, 56, 113>>, <<65, 57, 69, 50, 48>>},
            ph \in PhaseStrs, bd \in BoardParts}

MoveInit ==
    /\ text \in MovePayloads
    /\ decoded = None
    /\ board = Board_new_empty
    /\ message = None
    /\ frame = None
    /\ parsed = None
    /\ ConnInit
    /\ GameIdle

\* payload.parse::<MoveMessage>()
DecodeMove ==
    /\ ~decoded.some
    /\ \E d \in {MoveMessage_from_str(text)} :
          /\ decoded' = Some(d)
          /\ board' = IF d.ok THEN d.val.board ELSE board
    /\ UNCHANGED <<text, message, frame, parsed>>
    /\ UNCHANGED connVars
    /\ UNCHANGED <<gameVars, scan>>

MoveNext == DecodeMove

MoveSpec == MoveInit /\ [][MoveNext]_vars


\* The move-code and the phase-code of the payload: its first two
\* ':'-separated parts.
TextMoveCode == split(text, 58)[1]
TextPhaseCode == split(text, 58)[2]

\* The board part of the payload, its third ':'-separated part, is the
\* standard board.
WellFormedBoardPart == split(text, 58)[3] = StandardBoardStr

\* The letters of a promotion, in either case.
PromotionLetters == {112, 110, 98, 114, 113, 107, 80, 78, 66, 82, 81, 75}

\* The move-code is 5 characters: a column A-H, a row 1-8, a column A-H, a
\* row 1-8, and '0' or a promotion letter.
ValidMoveCode(mc) ==
    /\ Len(mc) = 5
    /\ mc[1] \in 65..72
    /\ mc[2] \in 49..56
    /\ mc[3] \in 65..72
    /\ mc[4] \in 49..56
    /\ mc[5] \in {48} \cup PromotionLetters

\* The promotion a promotion character names.
PromotionNamed(c) ==
    CASE c = 48 -> None
      [] c \in {112, 80} -> Some("Pawn")
      [] c \in {110, 78} -> Some("Knight")
      [] c \in {98, 66} -> Some("Bishop")
      [] c \in {114, 82} -> Some("Rook")
      [] c \in {113, 81} -> Some("Queen")
      [] c \in {107, 75} -> Some("King")

\* C19: a payload's move-code is accepted exactly when it is 5 characters
\* [A-H][1-8][A-H][1-8] and '0' or one of p n b r q k in either case, and
\* the decoded message then has the source, destination and promotion the
\* characters name; with any other move-code the result is
\* Err(InvalidMove) carrying the move-code.
C19_MoveCode ==
    decoded.some
        => IF ValidMoveCode(TextMoveCode)
           THEN /\ ~decoded.val.ok => decoded.val.err.kind # "InvalidMove"
                /\ (TextPhaseCode = <<48, 45, 48>> /\ WellFormedBoardPart)
                      => decoded.val.ok
                /\ decoded.val.ok
                      => /\ decoded.val.val.source
                               = Pos(TextMoveCode[1] - 65, TextMoveCode[2] - 49)
                         /\ decoded.val.val.dest
                               = Pos(TextMoveCode[3] - 65, TextMoveCode[4] - 49)
                         /\ decoded.val.val.promotion = PromotionNamed(TextMoveCode[5])
           ELSE decoded.val = Err([kind |-> "InvalidMove", part |-> TextMoveCode])

\* "A1H8K" was decoded: from a1 to h8, promoting to a king.
C19_Witness ==
    /\ decoded.some
    /\ TextMoveCode = <<65, 49, 72, 56, 75>>
    /\ decoded.val.ok
    /\ decoded.val.val.source = Pos(0, 0)
    /\ decoded.val.val.dest = Pos(7, 7)
    /\ decoded.val.val.promotion = Some("King")

\* The game phase a phase-code names.
PhaseNamed(pc) ==
    CASE pc = <<48, 45, 48>> -> "Ongoing"
      [] pc = <<49, 45, 48>> -> "WhiteWin"
      [] pc = <<48, 45, 49>> -> "BlackWin"
      [] pc = <<49, 45, 49>> -> "Draw"

\* The four phase-codes of the protocol.
PhaseCodes == {<<48, 45, 48>>, <<49, 45, 48>>, <<48, 45, 49>>, <<49, 45, 49>>}

\* C20: behind a valid move-code, the phase-codes "0-0", "1-0", "0-1" and
\* "1-1" decode to Ongoing, White won, Black won and Draw, four different
\* phases from four codes, and with any other phase-code the result is
\* Err(InvalidGamePhase) carrying the phase-code.
C20_PhaseCode ==
    (decoded.some /\ ValidMoveCode(TextMoveCode))
        => IF TextPhaseCode \in PhaseCodes
           THEN /\ WellFormedBoardPart <=> decoded.val.ok
                /\ decoded.val.ok => decoded.val.val.phase = PhaseNamed(TextPhaseCode)
                /\ ~decoded.val.ok => decoded.val.err.kind = "InvalidBoard"
                /\ \A a \in PhaseCodes, b \in PhaseCodes :
                      PhaseNamed(a) = PhaseNamed(b) => a = b
                /\ {PhaseNamed(a) : a \in PhaseCodes} = GamePhases
           ELSE decoded.val = Err([kind |-> "InvalidGamePhase", part |-> TextPhaseCode])

\* "E7H8q:0-1:..." was decoded: Black has won.
C20_Witness ==
    /\ decoded.some
    /\ TextMoveCode = <<69, 55, 72, 56, 113>>
    /\ TextPhaseCode = <<48, 45, 49>>
    /\ decoded.val.ok
    /\ decoded.val.val.phase = "BlackWin"

(***************************************************************************)
(* The frame decoder alone: a 128-byte buffer is parsed with               *)
(* Message::parse_from.                                                    *)
(***************************************************************************)
\* Identifiers of a frame: "ChessMOVE", "ChessQUIT", and "ChessPING",
\* "Chess", "chessmove", "".
FrameIds ==
    {IdMove, IdQuit, <<67, 104, 101, 115, 115, 80, 73, 78, 71>>, Prefix,
     <<99, 104, 101, 115, 115, 109, 111, 118, 101>>, <<>>}

\* The ':'-separated parts put behind the identifier: none, the parts of the
\* move frame of the tests one after the other ("E2E40", "0-0", the standard
\* board, the padding), a quit text "bye" without and with padding, and both
\* payloads with one part more than the protocol names.
FrameParts ==
    {<<>>,
     <<<<69, 50, 69, 52, 48>>>>,
     <<<<69, 50, 69, 52, 48>>, <<48, 45, 48>>>>,
     <<<<69, 50, 69, 52, 48>>, <<48, 45, 48>>, StandardBoardStr>>,
     <<<<69, 50, 69, 52, 48>>, <<48, 45, 48>>, StandardBoardStr, <<>>>>,
     <<<<98, 121, 101>>>>,
     <<<<98, 121, 101>>, <<>>>>,
     <<<<195, 169>>, <<>>>>,
     <<<<69, 50, 69, 52, 48>>, <<48, 45, 48>>, StandardBoardStr, <<120>>, <<>>>>,
     <<<<98, 121, 101>>, <<98, 121, 101>>, <<>>>>}

\* The identifier and the parts, each part behind a ':'.
RECURSIVE FrameContent(_, _)
FrameContent(id, parts) ==
    IF parts = <<>> THEN id
    ELSE FrameContent(id \o <<58>> \o parts[1], Tail(parts))

\* The content padded with '0' to a whole frame.
FrameOf(content) ==
    [i \in 1..FrameLen |-> IF i <= Len(content) THEN content[i] ELSE 48]

\* Bytes written over one byte of a frame: 0xFF, a lone continuation byte
\* and a lead byte with no continuation behind it, at the first byte, inside
\* the first part and at the last byte.
BadBytes == {255, 169, 195}
BadOffsets == {1, 11, FrameLen}

\* The buffers decoded.
Frames ==
    LET whole == {FrameOf(FrameContent(id, parts)) : id \in FrameIds, parts \in FrameParts}
    IN whole \cup {[f EXCEPT ![i] = b] : f \in whole, i \in BadOffsets, b \in BadBytes}

FrameInit ==
    /\ text \in Frames
    /\ decoded = None
    /\ board = Board_new_empty
    /\ message = None
    /\ frame = None
    /\ parsed = None
    /\ ConnInit
    /\ GameIdle

\* Message::parse_from(&buffer)
DecodeFrame ==
    /\ ~decoded.some
    /\ \E d \in {Message_parse_from(text)} : decoded' = Some(d)
    /\ UNCHANGED <<text, board, message, frame, parsed>>
    /\ UNCHANGED connVars
    /\ UNCHANGED <<gameVars, scan>>

FrameNext == DecodeFrame

FrameSpec == FrameInit /\ [][FrameNext]_vars

\* The bytes of the buffer are UTF-8 (of one- and two-byte sequences).
TextIsUtf8 ==
    \A i \in 1..Len(text) :
        \/ text[i] < 128
        \/ text[i] \in 194..223 /\ i < Len(text) /\ text[i + 1] \in 128..191
        \/ text[i] \in 128..191 /\ i > 1 /\ text[i - 1] \in 194..223

\* The ':' of the buffer, and the text before the first of them (all of it
\* when there is none).
Colons == {i \in 1..Len(text) : text[i] = 58}
TextIdentifier ==
    IF Colons = {} THEN text ELSE SubSeq(text, 1, Nth(Colons, 1) - 1)

\* C21: a UTF-8 frame with n - 1 separators ':' decodes to
\* Err(TooFewParts(n)) when it has no ':' (n = 1), when its identifier is
\* "ChessMOVE" and n is 2, 3 or 4, and when its identifier is "ChessQUIT" and
\* n is 2; a Move frame of 5 parts and a Quit frame of 3 do not.
C21_TooFewParts ==
    (decoded.some /\ TextIsUtf8)
        => LET n == Cardinality(Colons) + 1
               short == Err([kind |-> "TooFewParts", n |-> n])
           IN /\ n = 1 => decoded.val = short
              /\ (n > 1 /\ TextIdentifier = IdMove)
                    => IF n < 5 THEN decoded.val = short
                       ELSE decoded.val.ok \/ decoded.val.err.kind # "TooFewParts"
              /\ (n > 1 /\ TextIdentifier = IdQuit)
                    => IF n < 3 THEN decoded.val = short
                       ELSE decoded.val.ok \/ decoded.val.err.kind # "TooFewParts"

\* "ChessMOVE:E2E40:0-0" and padding without ':' was decoded to
\* TooFewParts(3).
C21_Witness ==
    /\ decoded.some
    /\ TextIsUtf8
    /\ TextIdentifier = IdMove
    /\ Cardinality(Colons) = 2
    /\ decoded.val = Err([kind |-> "TooFewParts", n |-> 3])


\* C22: a buffer that is not UTF-8 decodes to Err(Utf8Error), whatever else
\* it holds; a UTF-8 buffer with a ':' decodes to Err(InvalidMessageId)
\* carrying the text before the first ':' unless that text is exactly
\* "ChessMOVE" or "ChessQUIT", and then to neither of the two errors.
C22_Utf8ThenIdentifier ==
    decoded.some
        => IF ~TextIsUtf8
           THEN ~decoded.val.ok /\ decoded.val.err.kind = "Utf8Error"
           ELSE Colons # {}
                   => IF TextIdentifier \in {IdMove, IdQuit}
                      THEN decoded.val.ok
                              \/ decoded.val.err.kind \notin {"Utf8Error", "InvalidMessageId"}
                      ELSE decoded.val = Err([kind |-> "InvalidMessageId",
                                              id |-> TextIdentifier])

\* "ChessPING:bye:" and padding was decoded to InvalidMessageId("ChessPING").
C22_Witness ==
    /\ decoded.some
    /\ TextIsUtf8
    /\ SubSeq(text, 1, 14) = <<67, 104, 101, 115, 115, 80, 73, 78, 71, 58, 98, 121, 101, 58>>
    /\ decoded.val = Err([kind |-> "InvalidMessageId",
                          id |-> <<67, 104, 101, 115, 115, 80, 73, 78, 71>>])

(***************************************************************************)
(* accept() one loop iteration at a time: the loop of skip_until_slice and *)
(* the loop of read_exact, with bytes arriving between the iterations.     *)
(***************************************************************************)
\* One pass through the body of the loop of skip_until_slice: what
\* fill_buf reported, whether the pass returned (res is then the result)
\* or went round again, and the reader afterwards.
skip_iteration(s, r, slice) ==
    With(BufReader_fill_buf(s, r), LAMBDA fb :
      IF fb.kind = "WouldBlock"
      THEN [saw |-> "WouldBlock", returned |-> TRUE, res |-> "None",
            reader |-> fb.reader]
      ELSE IF fb.reader.filled - fb.reader.pos = 0
      THEN [saw |-> "Empty", returned |-> TRUE, res |-> "None", reader |-> fb.reader]
      ELSE With(WindowsPosition(s, fb.reader, slice), LAMBDA pos :
             IF pos >= 0
             THEN [saw |-> "Data", returned |-> TRUE, res |-> "Some",
                   reader |-> BufReader_consume(fb.reader, pos)]
             ELSE [saw |-> "Data", returned |-> FALSE, res |-> "None",
                   reader |-> BufReader_consume(
                                  fb.reader,
                                  Advance(fb.reader.filled - fb.reader.pos, slice))]))

\* One pass through the loop of read_exact with n bytes still to read (the
\* whole of read_exact when the buffer holds them all): what the read
\* reported, the bytes still to read and the reader afterwards.
read_iteration(s, r, n) ==
    IF r.filled - r.pos >= n
    THEN [saw |-> "Data", need |-> 0, reader |-> BufReader_consume(r, n)]
    ELSE With(BufReader_read(s, r, n), LAMBDA rd :
           IF rd.kind = "WouldBlock"
           THEN [saw |-> "WouldBlock", need |-> n, reader |-> rd.reader]
           ELSE IF rd.n = 0 THEN [saw |-> "Empty", need |-> n, reader |-> rd.reader]
           ELSE [saw |-> "Data", need |-> n - rd.n, reader |-> rd.reader])

\* The frame of the tests' move message, a frame that does not parse, the
\* first 8 bytes of a frame, and 7 bytes without the prefix.
StepTails ==
    {FrameOf(FrameContent(IdMove, <<<<69, 50, 69, 52, 48>>, <<48, 45, 48>>,
                                    StandardBoardStr, <<>>>>)),
     FrameOf(Prefix),
     <<67, 104, 101, 115, 115, 77, 79, 86>>,
     <<120, 120, 120, 120, 120, 120, 120>>}

\* The streams read: up to MaxPad bytes of 'C' and 'x', then one of the tails.
StepWires == {a \o b : a \in Pads(MaxPad), b \in StepTails}

\* Stream offsets at which a chunk may end.
StepCuts == {1, 3, 6, 9, 64, FrameLen}

StepInit ==
    /\ wire \in StepWires
    /\ arrived = 0
    /\ closed = FALSE
    /\ writes = <<>>
    /\ reader = [pos |-> 0, filled |-> 0]
    /\ last = NoCall
    /\ log = <<>>
    /\ partial = {}
    /\ CodecIdle
    /\ GameIdle

\* The bytes up to offset p, or all of them, reach the local socket.
StepArrive(p) ==
    /\ arrived < Min(p, Len(wire))
    /\ arrived' = Min(p, Len(wire))
    /\ UNCHANGED <<wire, closed, writes, reader, last, log, partial, scan>>
    /\ UNCHANGED <<codecVars, gameVars>>

\* The peer closes the connection and the end-of-stream arrives.
StepClose ==
    /\ ~closed
    /\ arrived = Len(wire)
    /\ closed' = TRUE
    /\ UNCHANGED <<wire, arrived, writes, reader, last, log, partial, scan>>
    /\ UNCHANGED <<codecVars, gameVars>>

\* accept() is called: control is at the top of the loop of skip_until_slice.
BeginAccept ==
    /\ scan.pc = "idle"
    /\ scan' = [NoScan EXCEPT !.pc = "skip"]
    /\ UNCHANGED connVars
    /\ UNCHANGED <<codecVars, gameVars>>

\* One iteration of the loop of skip_until_slice.  Ok(None) returns from
\* accept(); Ok(Some(())) leads to read_exact.
SkipIteration ==
    /\ scan.pc = "skip"
    /\ \E k \in {skip_iteration(Inbound, reader, Prefix)} :
          /\ reader' = k.reader
          /\ scan' = [pc |-> IF ~k.returned THEN "skip"
                             ELSE IF k.res = "Some" THEN "read" ELSE "idle",
                      need |-> IF k.returned /\ k.res = "Some" THEN FrameLen ELSE 0,
                      start |-> IF k.returned /\ k.res = "Some" THEN k.reader.pos ELSE -1,
                      iters |-> scan.iters + 1,
                      consumed |-> k.reader.pos - reader.pos,
                      looped |-> ~k.returned,
                      saw |-> k.saw,
                      ret |-> IF k.returned /\ k.res = "None" THEN "None" ELSE "nothing"]
    /\ UNCHANGED <<wire, arrived, closed, writes, last, log, partial>>
    /\ UNCHANGED <<codecVars, gameVars>>

\* One iteration of the loop of read_exact, and the rest of accept() when
\* the loop ends: Ok(None) on WouldBlock, Err at the end of the stream, and
\* the outcome of parse_from once the 128 bytes are read.
ReadIteration ==
    /\ scan.pc = "read"
    /\ \E k \in {read_iteration(Inbound, reader, scan.need)} :
          /\ reader' = k.reader
          /\ scan' = [pc |-> IF k.saw = "Data" /\ k.need > 0 THEN "read" ELSE "idle",
                      need |-> k.need,
                      start |-> scan.start,
                      iters |-> scan.iters + 1,
                      consumed |-> k.reader.pos - reader.pos,
                      looped |-> k.saw = "Data" /\ k.need > 0,
                      saw |-> k.saw,
                      ret |-> CASE k.saw = "WouldBlock" -> "None"
                                [] k.saw = "Empty" -> "Err"
                                [] k.need > 0 -> "nothing"
                                [] OTHER -> AcceptParse(Inbound, scan.start, k.reader).ret]
    /\ UNCHANGED <<wire, arrived, closed, writes, last, log, partial>>
    /\ UNCHANGED <<codecVars, gameVars>>

StepNext ==
    \/ \E p \in StepCuts \cup {MaxPad + FrameLen} : StepArrive(p)
    \/ StepClose
    \/ BeginAccept
    \/ SkipIteration
    \/ ReadIteration

\* A call that has started goes on: the thread inside accept() keeps
\* running.  Nothing is assumed about the arrival of bytes.
StepSpec ==
    StepInit /\ [][StepNext]_vars /\ WF_vars(SkipIteration \/ ReadIteration)

\* C23: an iteration of a loop of accept() that goes round again has
\* consumed at least one buffered byte; an iteration in which the reader
\* reported WouldBlock or no bytes has returned from accept(); and every
\* accept() call that has started returns, whether or not more bytes arrive.
C23_AcceptReturns ==
    /\ [](scan.looped => scan.consumed >= 1)
    /\ [](scan.saw \in {"WouldBlock", "Empty"} => scan.pc = "idle" /\ scan.ret # "nothing")
    /\ (scan.pc # "idle") ~> (scan.pc = "idle")

\* A call went three times round the scanning loop over bytes without the
\* prefix and returned Ok(None) when the socket had no more.
C23_Witness ==
    /\ scan.pc = "idle"
    /\ scan.iters >= 4
    /\ scan.saw = "WouldBlock"
    /\ scan.ret = "None"
    /\ scan.start = -1
    /\ reader.pos > 0

(***************************************************************************)
(* chess_game.rs: the game state of one peer and its handlers.  The rules  *)
(* engine (chess::game::game_state) is an external library: its answer to  *)
(* make_move is an input, and an accepted move carries the piece from the  *)
(* source to the destination and passes the turn.                          *)
(***************************************************************************)
SelectSource == [kind |-> "SelectSource"]
SelectDest(square) == [kind |-> "SelectDest", source |-> square]
WaitingForRemote == [kind |-> "WaitingForRemote"]

\* The connections of a GameState: GameConnection::Local, and Remote with
\* ConnectionType::Server or ConnectionType::Client.
Connections == {"Local", "Server", "Client"}

\* The Outcome values BoardWrapper::make_move maps to Ok and to Err.
AcceptedOutcomes == {"Valid", "Check", "Checkmate"}
RejectedOutcomes == {"BadCoordinates", "WrongPlayer", "Invalid", "Checked"}

\* Color::opposite, on the engine's turn character.
OppositeTurn(turn) == IF turn = "w" THEN "b" ELSE "w"

\* GameState::new with every peer starting in SelectSource.
GameState_new_all_select(connection) ==
    [board |-> StandardBoard,
     turn |-> "w",
     last_move |-> None,
     turn_phase |-> SelectSource,
     game_phase |-> "Ongoing",
     connection |-> connection]

\* GameState::new on chess::game::game_state::new(): `board` and `turn`
\* are the fields of the wrapped engine state.
GameState_new(connection) ==
    [board |-> StandardBoard,
     turn |-> "w",
     last_move |-> None,
     turn_phase |-> IF connection = "Server" THEN WaitingForRemote ELSE SelectSource,
     game_phase |-> "Ongoing",
     connection |-> connection]

\* BoardWrapper::at
BoardWrapper_at(g, position) == Board_tile(g.board, position)

\* BoardWrapper::turn
BoardWrapper_turn(g) == IF g.turn = "w" THEN "White" ELSE "Black"

\* BoardWrapper::make_move with the engine answering `outcome`.
BoardWrapper_make_move(g, source, dest, outcome) ==
    IF outcome \in AcceptedOutcomes
    THEN [g EXCEPT !.board = Board_set_tile(Board_set_tile(g.board, source, None),
                                            dest, Board_tile(g.board, source)),
                   !.turn = OppositeTurn(g.turn)]
    ELSE g

\* GamePhase::Win(color), as the variant of chesstp::GamePhase.
Win(color) == IF color = "White" THEN "WhiteWin" ELSE "BlackWin"

\* select_square without its first check, of game_phase.
select_square_ignores_game_phase(g, square, outcome, res) ==
    CASE g.turn_phase.kind = "SelectSource" ->
           IF \/ ~BoardWrapper_at(g, square).some
              \/ BoardWrapper_at(g, square).val.color # BoardWrapper_turn(g)
           THEN [game |-> g, bytes |-> <<>>, wrote |-> FALSE, panicked |-> FALSE]
           ELSE [game |-> [g EXCEPT !.turn_phase = SelectDest(square)],
                 bytes |-> <<>>, wrote |-> FALSE, panicked |-> FALSE]
      [] g.turn_phase.kind = "SelectDest" ->
           With(g.turn_phase.source, LAMBDA source :
             IF outcome \in RejectedOutcomes
             THEN [game |-> [g EXCEPT !.turn_phase = SelectSource],
                   bytes |-> <<>>, wrote |-> FALSE, panicked |-> FALSE]
             ELSE With(BoardWrapper_make_move(g, source, square, outcome), LAMBDA g1 :
                  With([g1 EXCEPT !.game_phase =
                                      IF outcome = "Checkmate"
                                      THEN Win(BoardWrapper_turn([turn |-> OppositeTurn(g1.turn)]))
                                      ELSE g1.game_phase,
                                  !.last_move = Some(<<source, square>>)],
                       LAMBDA g2 :
                    IF g.connection = "Local"
                    THEN [game |-> [g2 EXCEPT !.turn_phase = SelectSource],
                          bytes |-> <<>>, wrote |-> FALSE, panicked |-> FALSE]
                    ELSE With(write([type |-> "Move",
                                     move |-> [source |-> source, dest |-> square,
                                               promotion |-> None,
                                               phase |-> g2.game_phase,
                                               board |-> g2.board]], res),
                              LAMBDA w :
                           IF w.ret = "Ok"
                           THEN [game |-> [g2 EXCEPT !.turn_phase = WaitingForRemote],
                                 bytes |-> w.bytes, wrote |-> TRUE,
                                 panicked |-> FALSE]
                           ELSE [game |-> g2, bytes |-> w.bytes, wrote |-> TRUE,
                                 panicked |-> TRUE]))))
      [] OTHER -> [game |-> g, bytes |-> <<>>, wrote |-> FALSE, panicked |-> FALSE]

\* select_square that hands the turn over without writing the Move.
select_square_without_write(g, square, outcome, res) ==
    IF g.game_phase # "Ongoing" \/ g.turn_phase.kind = "WaitingForRemote"
    THEN [game |-> g, bytes |-> <<>>, wrote |-> FALSE, panicked |-> FALSE]
    ELSE IF g.turn_phase.kind = "SelectSource"
    THEN [game |-> IF \/ ~BoardWrapper_at(g, square).some
                      \/ BoardWrapper_at(g, square).val.color # BoardWrapper_turn(g)
                   THEN g
                   ELSE [g EXCEPT !.turn_phase = SelectDest(square)],
          bytes |-> <<>>, wrote |-> FALSE, panicked |-> FALSE]
    ELSE IF outcome \in RejectedOutcomes
    THEN [game |-> [g EXCEPT !.turn_phase = SelectSource],
          bytes |-> <<>>, wrote |-> FALSE, panicked |-> FALSE]
    ELSE [game |-> [BoardWrapper_make_move(g, g.turn_phase.source, square, outcome)
                        EXCEPT !.last_move = Some(<<g.turn_phase.source, square>>),
                               !.turn_phase = IF g.connection = "Local"
                                              THEN SelectSource ELSE WaitingForRemote],
          bytes |-> <<>>, wrote |-> FALSE, panicked |-> FALSE]

\* GameState::select_square.  `outcome` is the engine's answer if make_move
\* is called and `res` what the transport returns if a frame is written.
\* The value is the state afterwards, the bytes put on the wire, and
\* whether the call panicked in `stream.write(..).unwrap()`.
select_square(g, square, outcome, res) ==
    IF g.game_phase # "Ongoing"
    THEN [game |-> g, bytes |-> <<>>, wrote |-> FALSE, panicked |-> FALSE]
    ELSE CASE g.turn_phase.kind = "SelectSource" ->
                IF \/ ~BoardWrapper_at(g, square).some
                   \/ BoardWrapper_at(g, square).val.color # BoardWrapper_turn(g)
                THEN [game |-> g, bytes |-> <<>>, wrote |-> FALSE, panicked |-> FALSE]
                ELSE [game |-> [g EXCEPT !.turn_phase = SelectDest(square)],
                      bytes |-> <<>>, wrote |-> FALSE, panicked |-> FALSE]
           [] g.turn_phase.kind = "SelectDest" ->
                With(g.turn_phase.source, LAMBDA source :
                  IF outcome \in RejectedOutcomes
                  THEN [game |-> [g EXCEPT !.turn_phase = SelectSource],
                        bytes |-> <<>>, wrote |-> FALSE, panicked |-> FALSE]
                  ELSE With(BoardWrapper_make_move(g, source, square, outcome), LAMBDA g1 :
                       With([g1 EXCEPT !.game_phase =
                                           IF outcome = "Checkmate"
                                           THEN Win(BoardWrapper_turn([turn |-> OppositeTurn(g1.turn)]))
                                           ELSE g1.game_phase,
                                       !.last_move = Some(<<source, square>>)],
                            LAMBDA g2 :
                         IF g.connection = "Local"
                         THEN [game |-> [g2 EXCEPT !.turn_phase = SelectSource],
                               bytes |-> <<>>, wrote |-> FALSE, panicked |-> FALSE]
                         ELSE With(write([type |-> "Move",
                                          move |-> [source |-> source, dest |-> square,
                                                    promotion |-> None,
                                                    phase |-> g2.game_phase,
                                                    board |-> g2.board]], res),
                                   LAMBDA w :
                                IF w.ret = "Ok"
                                THEN [game |-> [g2 EXCEPT !.turn_phase = WaitingForRemote],
                                      bytes |-> w.bytes, wrote |-> TRUE,
                                      panicked |-> FALSE]
                                ELSE [game |-> g2, bytes |-> w.bytes, wrote |-> TRUE,
                                      panicked |-> TRUE]))))
           [] OTHER -> [game |-> g, bytes |-> <<>>, wrote |-> FALSE, panicked |-> FALSE]

\* The Move arm of update without the assignment to turn_phase.
update_message_keeps_turn_phase(g, m) ==
    IF m.type = "Quit" THEN g
    ELSE [g EXCEPT !.turn = IF g.connection = "Server" THEN "b" ELSE "w",
                   !.board = m.move.board,
                   !.last_move = Some(<<m.move.source, m.move.dest>>),
                   !.game_phase = m.move.phase]

\* The arm of GameState::update for one message accept() returned;
\* Board::update_game replaces the engine's board.
update_message(g, m) ==
    IF m.type = "Quit" THEN g
    ELSE [g EXCEPT !.turn = IF g.connection = "Server" THEN "b" ELSE "w",
                   !.board = m.move.board,
                   !.last_move = Some(<<m.move.source, m.move.dest>>),
                   !.turn_phase = SelectSource,
                   !.game_phase = m.move.phase]

\* GameState::update on a remote connection whose accept() returns the
\* messages of `frames` one after the other and then None.
RECURSIVE update(_, _)
update(g, frames) ==
    IF frames = <<>> THEN g
    ELSE update(update_message(g, Message_parse_from(frames[1]).val), Tail(frames))

\* quit_event that calls close() whatever the write returned.
quit_event_closes_anyway(g, res) ==
    IF g.connection = "Local"
    THEN [ret |-> "Ok", bytes |-> <<>>, wrote |-> FALSE, closed |-> FALSE]
    ELSE With(write(QuitUserExited, res), LAMBDA w :
           [ret |-> w.ret, bytes |-> w.bytes, wrote |-> TRUE, closed |-> TRUE])

\* GameUi::quit_event.  `res` is what the transport returns for the Quit
\* frame; close() is reached only behind the `?` of the write.
quit_event(g, res) ==
    IF g.connection = "Local"
    THEN [ret |-> "Ok", bytes |-> <<>>, wrote |-> FALSE, closed |-> FALSE]
    ELSE With(write(QuitUserExited, res), LAMBDA w :
           IF w.ret = "Err"
           THEN [ret |-> "Err", bytes |-> w.bytes, wrote |-> TRUE, closed |-> FALSE]
           ELSE [ret |-> "Ok", bytes |-> w.bytes, wrote |-> TRUE, closed |-> TRUE])

(***************************************************************************)
(* Sessions: a server and a client that both run this program, a local     *)
(* game, and one peer of this program against a remote that sends whole    *)
(* frames of its own choosing.  A frame written whole reaches the other    *)
(* peer's update() in order; the bytes of a write cut short are not        *)
(* followed to the receiving side.                                         *)
(***************************************************************************)
\* Entries of outlog in one session.
MaxEvents == 5

\* Frames the remote of a one-peer session sends.
MaxForeign == 2

\* The squares clicked: e2, e4 and e7.
ClickSquares == {Pos(4, 1), Pos(4, 3), Pos(4, 6)}

\* What the remote of a one-peer session may send: e7 to e5 in an ongoing
\* game on the standard board, the same move declared a draw on an empty
\* board or a win of White, and the quit message.
ForeignMessages ==
    {[type |-> "Move",
      move |-> [source |-> Pos(4, 6), dest |-> Pos(4, 4), promotion |-> None,
                phase |-> ph, board |-> b]] :
        <<ph, b>> \in {<<"Ongoing", StandardBoard>>, <<"Draw", Board_new_empty>>,
                       <<"WhiteWin", StandardBoard>>}}
    \cup {QuitUserExited}

\* What the transport may return for a frame in a session: all of it taken,
\* its first 8 bytes taken, or an error.
SessionResults ==
    {[kind |-> "Ok", n |-> FrameLen], [kind |-> "Ok", n |-> 8], [kind |-> "Err"]}

\* The peers of a session.
Sessions == {{"Server", "Client"}, {"Local"}, {"Server"}, {"Client"}}

\* The peer at the other end of p's connection, if it runs this program.
Other(p) == IF p = "Server" THEN "Client" ELSE "Server"

\* p has left: quit_event has run, or a handler panicked.
Gone(p) == \E i \in 1..Len(outlog) : outlog[i].peer = p /\ outlog[i].op \in {"Exit", "Panic"}

\* The entries a write of `bytes` adds to outlog: a whole frame of the given
\* kind, or a frame cut short.
Wrote(p, kind, r) ==
    IF ~r.wrote THEN <<>>
    ELSE <<[peer |-> p, op |-> IF Len(r.bytes) = FrameLen THEN kind ELSE "Short"]>>

\* chan after p put `bytes` on the wire.
Carried(p, r) ==
    IF r.wrote /\ Len(r.bytes) = FrameLen /\ Other(p) \in DOMAIN chan
    THEN [chan EXCEPT ![Other(p)] = Append(@, r.bytes)]
    ELSE chan

GameInit ==
    /\ \E peers \in Sessions :
          /\ game = [p \in peers |-> GameState_new(p)]
          /\ chan = [p \in peers |-> <<>>]
    /\ outlog = <<>>
    /\ shut = {}
    /\ over = {}
    /\ event = [op |-> "init"]
    /\ scan = NoScan
    /\ ConnInit
    /\ CodecIdle

\* select_square on g gets as far as make_move, and as far as write.
AsksEngine(g) == g.game_phase = "Ongoing" /\ g.turn_phase.kind = "SelectDest"
AsksTransport(g, outcome) ==
    AsksEngine(g) /\ outcome \in AcceptedOutcomes /\ g.connection # "Local"

\* A square button of p is pressed.  The engine's answer and the
\* transport's result are inputs only of the calls that use them.
SelectSquare(p, square, outcome, res) ==
    /\ p \in DOMAIN game
    /\ ~Gone(p)
    /\ Len(outlog) < MaxEvents
    /\ AsksEngine(game[p]) \/ outcome = "Valid"
    /\ AsksTransport(game[p], outcome) \/ res.kind = "Err"
    /\ \E r \in {select_square(game[p], square, outcome, res)} :
          /\ game' = [game EXCEPT ![p] = r.game]
          /\ chan' = Carried(p, r)
          /\ outlog' = outlog \o Wrote(p, "Move", r)
                         \o (IF r.panicked THEN <<[peer |-> p, op |-> "Panic"]>> ELSE <<>>)
          /\ event' = [op |-> "select_square", peer |-> p, before |-> game[p],
                       square |-> square,
                       accepted |-> AsksEngine(game[p]) /\ outcome \in AcceptedOutcomes,
                       wrote |-> r.wrote, bytes |-> r.bytes, panicked |-> r.panicked,
                       ended |-> p \in over]
          /\ over' = IF r.game.game_phase # "Ongoing" THEN over \cup {p} ELSE over
    /\ UNCHANGED shut
    /\ UNCHANGED <<connVars, codecVars, scan>>

\* The Move messages among the frames.
MovesIn(frames) ==
    SelectSeq([k \in 1..Len(frames) |-> Message_parse_from(frames[k]).val],
              LAMBDA m : m.type = "Move")

\* The update tick of p: the frames that have reached p are accepted.
Update(p) ==
    /\ p \in DOMAIN game
    /\ ~Gone(p)
    /\ Len(outlog) < MaxEvents
    /\ game' = [game EXCEPT ![p] = IF p = "Local" THEN @ ELSE update(@, chan[p])]
    /\ chan' = [chan EXCEPT ![p] = <<>>]
    /\ \E moves \in {MovesIn(chan[p])} :
          /\ outlog' = outlog \o [k \in 1..Len(moves) |-> [peer |-> p, op |-> "Recv"]]
          /\ event' = [op |-> "update", peer |-> p, before |-> game[p],
                       moves |-> moves]
    /\ over' = IF game'[p].game_phase # "Ongoing" THEN over \cup {p} ELSE over
    /\ UNCHANGED shut
    /\ UNCHANGED <<connVars, codecVars, scan>>

\* The window of p is closed: quit_event runs and the program ends.
QuitEvent(p, res) ==
    /\ p \in DOMAIN game
    /\ ~Gone(p)
    /\ Len(outlog) < MaxEvents
    /\ p # "Local" \/ res.kind = "Err"
    /\ \E r \in {quit_event(game[p], res)} :
          /\ chan' = Carried(p, r)
          /\ shut' = IF r.closed THEN shut \cup {p} ELSE shut
          /\ outlog' = outlog \o Wrote(p, "Quit", r)
                         \o (IF r.closed THEN <<[peer |-> p, op |-> "Close"]>> ELSE <<>>)
                         \o <<[peer |-> p, op |-> "Exit"]>>
          /\ event' = [op |-> "quit_event", peer |-> p, before |-> game[p],
                       wrote |-> r.wrote, bytes |-> r.bytes, closed |-> r.closed,
                       ret |-> r.ret]
    /\ UNCHANGED <<game, over>>
    /\ UNCHANGED <<connVars, codecVars, scan>>

\* The remote of a one-peer session sends a frame.
Foreign(p, m) ==
    /\ DOMAIN game = {p}
    /\ p # "Local"
    /\ Len(outlog) < MaxEvents
    /\ Cardinality({i \in 1..Len(outlog) : outlog[i].op = "Foreign"}) < MaxForeign
    /\ chan' = [chan EXCEPT ![p] = Append(@, Message_serialize(m).val)]
    /\ outlog' = Append(outlog, [peer |-> "Remote", op |-> "Foreign"])
    /\ UNCHANGED <<game, shut, over, event>>
    /\ UNCHANGED <<connVars, codecVars, scan>>

GameNext ==
    \/ \E p \in Connections, square \in ClickSquares,
          outcome \in AcceptedOutcomes \cup RejectedOutcomes, res \in SessionResults :
            SelectSquare(p, square, outcome, res)
    \/ \E p \in Connections : Update(p)
    \/ \E p \in Connections, res \in SessionResults : QuitEvent(p, res)
    \/ \E p \in Connections, m \in ForeignMessages : Foreign(p, m)

GameSpec == GameInit /\ [][GameNext]_vars


\* C24: after an update() that received a Move message, the peer's board is
\* the board of the (last) message, last_move its source and destination,
\* game_phase its phase, turn_phase SelectSource and the side to move Black
\* for the server and White for the client, whatever the state was before.
C24_MoveResynchronizes ==
    (event.op = "update" /\ event.peer # "Local" /\ event.moves # <<>>)
        => LET m == event.moves[Len(event.moves)].move
               g == game[event.peer]
           IN /\ g.board = m.board
              /\ g.last_move = Some(<<m.source, m.dest>>)
              /\ g.game_phase = m.phase
              /\ g.turn_phase = SelectSource
              /\ BoardWrapper_turn(g) = IF event.peer = "Server" THEN "Black" ELSE "White"

\* The server had a source square selected on the standard board when a
\* Move declaring a draw on an empty board arrived.
C24_Witness ==
    /\ event.op = "update"
    /\ event.peer = "Server"
    /\ event.before.turn_phase.kind = "SelectDest"
    /\ event.before.board = StandardBoard
    /\ Len(event.moves) = 1
    /\ event.moves[1].move.phase = "Draw"
    /\ game["Server"].board = Board_new_empty
    /\ game["Server"].game_phase = "Draw"
    /\ game["Server"].turn_phase = SelectSource


\* The entries of outlog that stand for bytes p put on the wire.
IsWrite(e, p) == e.peer = p /\ e.op \in {"Move", "Quit", "Short"}

\* C25: a quit_event on a remote connection writes the Quit frame and calls
\* close() only when that write returned Ok, so every close() of a peer
\* comes directly behind its whole Quit frame; no peer writes after its
\* close(); and a quit_event on a local connection writes and closes nothing.
C25_QuitThenClose ==
    /\ \A i \in 1..Len(outlog) :
          outlog[i].op = "Close"
              => /\ i > 1
                 /\ outlog[i - 1] = [peer |-> outlog[i].peer, op |-> "Quit"]
                 /\ \A j \in (i + 1)..Len(outlog) : ~IsWrite(outlog[j], outlog[i].peer)
    /\ \A p \in shut : \E i \in 1..Len(outlog) : outlog[i] = [peer |-> p, op |-> "Close"]
    /\ event.op = "quit_event"
          => IF event.peer = "Local"
             THEN ~event.wrote /\ ~event.closed /\ event.peer \notin shut
             ELSE /\ event.wrote
                  /\ event.closed <=> event.ret = "Ok"
                  /\ event.closed <=> event.bytes = Message_serialize(QuitUserExited).val
                  /\ event.closed <=> event.peer \in shut
    /\ \A i \in 1..Len(outlog) : ~IsWrite(outlog[i], "Local")

\* The client sent a Move, and later its window was closed: it wrote the
\* Quit frame and then closed the connection.
C25_Witness ==
    /\ event.op = "quit_event"
    /\ event.peer = "Client"
    /\ event.closed
    /\ "Client" \in shut
    /\ Len(outlog) = 4
    /\ outlog[1] = [peer |-> "Client", op |-> "Move"]
    /\ outlog[2] = [peer |-> "Client", op |-> "Quit"]
    /\ outlog[3] = [peer |-> "Client", op |-> "Close"]


\* The session is one server and one client that both run this program.
PairSession == DOMAIN game = {"Server", "Client"}

Waiting(g) == g.turn_phase.kind = "WaitingForRemote"

\* C26: in a session of a server and a client, at most one peer is outside
\* WaitingForRemote; the client starts in SelectSource and the server in
\* WaitingForRemote; a handler takes a peer into WaitingForRemote exactly
\* when it has written a whole Move frame, and out of it only when it is an
\* update() that received a Move; and between two Moves a peer sends it
\* receives one.
C26_OnePeerToMove ==
    PairSession
        => /\ Waiting(game["Server"]) \/ Waiting(game["Client"])
           /\ event.op = "init"
                 => ~Waiting(game["Client"]) /\ Waiting(game["Server"])
                    /\ game["Client"].turn_phase = SelectSource
           /\ event.op \in {"select_square", "update", "quit_event"}
                 => LET before == event.before
                        after == game[event.peer]
                    IN /\ (~Waiting(before) /\ Waiting(after))
                             <=> /\ event.op = "select_square"
                                 /\ event.wrote
                                 /\ ~event.panicked
                                 /\ Message_parse_from(event.bytes).val.type = "Move"
                       /\ (Waiting(before) /\ ~Waiting(after))
                             => event.op = "update" /\ event.moves # <<>>
           /\ \A i \in 1..Len(outlog), j \in 1..Len(outlog) :
                 (i < j /\ outlog[i].op = "Move" /\ outlog[j] = outlog[i])
                    => \E k \in (i + 1)..(j - 1) :
                          outlog[k] = [peer |-> outlog[i].peer, op |-> "Recv"]

\* The client moved, the server received the move and answered, and the
\* client received the answer: it is the client's turn again.
C26_Witness ==
    /\ PairSession
    /\ outlog = <<[peer |-> "Client", op |-> "Move"], [peer |-> "Server", op |-> "Recv"],
                  [peer |-> "Server", op |-> "Move"], [peer |-> "Client", op |-> "Recv"]>>
    /\ game["Client"].turn_phase = SelectSource
    /\ Waiting(game["Server"])


\* The latest handler was select_square of a remote peer that asked the
\* engine about a move from the selected source to the clicked square.
AskedEngine ==
    /\ event.op = "select_square"
    /\ event.before.connection # "Local"
    /\ AsksEngine(event.before)

\* The Move frame select_square builds after the engine accepted the move:
\* source, clicked destination, no promotion, the game phase and the board
\* the peer has after the move.
MoveFrameOf(before, square, after) ==
    Message_serialize([type |-> "Move",
                       move |-> [source |-> before.turn_phase.source, dest |-> square,
                                 promotion |-> None,
                                 phase |-> after.game_phase,
                                 board |-> after.board]]).val

\* What select_square leaves after a move the engine rejected.
RejectedLeaves(before, after) ==
    /\ ~event.wrote
    /\ event.bytes = <<>>
    /\ after.last_move = before.last_move
    /\ after.game_phase = before.game_phase
    /\ after.board = before.board
    /\ after.turn_phase = SelectSource

\* What select_square leaves after a move the engine accepted and a write
\* that returned Ok.
AcceptedLeaves(before, after) ==
    /\ event.wrote
    /\ event.bytes = MoveFrameOf(before, event.square, after)
    /\ \E i \in 1..Len(outlog) : outlog[i] = [peer |-> event.peer, op |-> "Move"]
    /\ after.last_move = Some(<<before.turn_phase.source, event.square>>)
    /\ after.turn_phase = WaitingForRemote

\* C27 as stated: in a remote session, select_square in phase SelectDest
\* writes exactly one Move frame (source, clicked destination, current game
\* phase, resulting board) and sets turn_phase to WaitingForRemote when the
\* engine accepts the move; when the engine rejects it, it writes nothing,
\* leaves last_move and game_phase unchanged and returns to SelectSource.
C27_MoveWrittenThenWaiting ==
    AskedEngine
        => IF event.accepted
           THEN AcceptedLeaves(event.before, game[event.peer])
           ELSE RejectedLeaves(event.before, game[event.peer])

\* C27: as above when the write of the frame returns Ok.  When it returns
\* Err (an I/O error, or a transport that took fewer than 128 bytes) the call
\* panics: at most a proper prefix of the frame is on the wire, no Move was
\* sent, the board, last_move and game_phase are those after the move,
\* turn_phase is still SelectDest, and the peer runs no handler afterwards.
C27_MoveWrittenOrPanic ==
    /\ AskedEngine
        => LET before == event.before
               after == game[event.peer]
           IN IF ~event.accepted THEN RejectedLeaves(before, after) /\ ~event.panicked
              ELSE IF ~event.panicked THEN AcceptedLeaves(before, after)
              ELSE /\ event.wrote
                   /\ Len(event.bytes) < FrameLen
                   /\ event.bytes = SubSeq(MoveFrameOf(before, event.square, after),
                                           1, Len(event.bytes))
                   /\ \E i \in 2..Len(outlog) :
                         /\ outlog[i - 1] = [peer |-> event.peer, op |-> "Short"]
                         /\ outlog[i] = [peer |-> event.peer, op |-> "Panic"]
                   /\ after.last_move = Some(<<before.turn_phase.source, event.square>>)
                   /\ after.turn = OppositeTurn(before.turn)
                   /\ after.turn_phase = before.turn_phase
    /\ event.op = "select_square" /\ ~AskedEngine => ~event.wrote /\ ~event.panicked
    /\ \A i \in 1..Len(outlog) :
          outlog[i].op = "Panic" => \A j \in (i + 1)..Len(outlog) : outlog[j].peer # outlog[i].peer

\* A client's accepted move e2-e4 went out as one frame and the client waits.
C27_Witness ==
    /\ AskedEngine
    /\ event.accepted
    /\ ~event.panicked
    /\ event.peer = "Client"
    /\ Len(event.bytes) = FrameLen
    /\ game["Client"].turn_phase = WaitingForRemote
    /\ game["Client"].last_move = Some(<<Pos(4, 1), Pos(4, 3)>>)


\* The latest handler was a select_square that found nothing to do: the peer
\* was waiting for the remote, or its game had ended.
Blocked(g) == g.turn_phase = WaitingForRemote \/ g.game_phase # "Ongoing"

\* select_square changed nothing and wrote nothing.
NothingDone ==
    /\ game[event.peer] = event.before
    /\ ~event.wrote
    /\ event.bytes = <<>>
    /\ ~event.panicked

\* C28 as stated: select_square changes nothing and writes nothing when
\* turn_phase is WaitingForRemote or game_phase is not Ongoing; hence a peer
\* whose game phase has become a win or a draw never sends another Move.
C28_NeverMovesAfterGameOver ==
    event.op = "select_square"
        => /\ Blocked(event.before) => NothingDone
           /\ event.ended => ~(event.wrote /\ Len(event.bytes) = FrameLen)

\* C28: select_square changes nothing and writes nothing when turn_phase is
\* WaitingForRemote or game_phase is not Ongoing, so a peer sends no Move
\* while its game phase is a win or a draw.  The game phase of a peer
\* returns to Ongoing only when its update() receives a Move whose phase is
\* Ongoing; between a server and a client running this program that never
\* happens, and there a peer whose game has ended sends no further Move.
C28_NoMoveWhileGameOver ==
    /\ event.op = "select_square"
          => /\ Blocked(event.before) => NothingDone
             /\ event.wrote => /\ event.before.game_phase = "Ongoing"
                               /\ event.before.turn_phase.kind = "SelectDest"
    /\ (event.op # "init" /\ event.before.game_phase # "Ongoing"
           /\ game[event.peer].game_phase = "Ongoing")
          => /\ event.op = "update"
             /\ event.moves # <<>>
             /\ event.moves[Len(event.moves)].move.phase = "Ongoing"
    /\ PairSession
          => /\ \A p \in over : game[p].game_phase # "Ongoing"
             /\ event.op = "select_square" /\ event.ended => ~event.wrote

\* The client mated; the server received the move, it is the server's turn
\* to select a source, and its click on e7 did nothing.
C28_Witness ==
    /\ PairSession
    /\ event.op = "select_square"
    /\ event.peer = "Server"
    /\ event.square = Pos(4, 6)
    /\ event.before.game_phase = "WhiteWin"
    /\ event.before.turn_phase = SelectSource
    /\ BoardWrapper_at(event.before, Pos(4, 6)).some
    /\ BoardWrapper_at(event.before, Pos(4, 6)).val.color = BoardWrapper_turn(event.before)
    /\ NothingDone


(***************************************************************************)
(* End-of-stream on the inbound half of the connection.                    *)
(***************************************************************************)
\* The latest accept() began after the peer's end-of-stream had arrived.
AcceptAtEof == last.op = "accept" /\ last.eof

\* C29: an accept() that begins after the peer closed the connection, with
\* every byte that arrived consumed, returns Ok(None) without an error and
\* leaves the reader as it was, so every further call does the same; an
\* accept() that locates a "Chess" prefix with fewer than 128 bytes between
\* it and the end-of-stream returns Err (UnexpectedEof).
C29_EndOfStream ==
    /\ (AcceptAtEof /\ last.from.pos = last.avail)
          => /\ last.ret = "None"
             /\ last.start = -1
             /\ last.to = last.from
    /\ (AcceptAtEof /\ last.start >= 0 /\ last.avail - last.start < FrameLen)
          => /\ last.ret = "Err"
             /\ log # <<>>
             /\ log[Len(log)] = [ret |-> "Err", start |-> last.start,
                                 err |-> [kind |-> "UnexpectedEof"]]
    /\ (AcceptAtEof /\ last.start >= 0 /\ last.avail - last.start >= FrameLen)
          => last.ret \in {"Some", "Err"}
             /\ (last.ret = "Err" => log[Len(log)].err.kind # "UnexpectedEof")

\* The peer closed after its transport took only part of a frame: one call
\* returned Err for it, and the call after that, with nothing left to read,
\* returned Ok(None).
C29_Witness ==
    /\ AcceptAtEof
    /\ last.from.pos = last.avail
    /\ last.from.pos > 0
    /\ last.ret = "None"
    /\ log # <<>>
    /\ log[Len(log)].ret = "Err"
    /\ log[Len(log)].err = [kind |-> "UnexpectedEof"]
    /\ HasPrefixAt(log[Len(log)].start)


\* The move-code passes the match of MoveMessage::from_str, [A-H][1-9]
\* [A-H][1-9] and one more character, with a row digit '9'.
RowNine(mc) ==
    /\ Len(chars(mc)) = 5
    /\ mc[1] \in 65..72
    /\ mc[2] \in 49..57
    /\ mc[3] \in 65..72
    /\ mc[4] \in 49..57
    /\ mc[2] = 57 \/ mc[4] = 57

\* A Position on the 8x8 board.
OnBoard(p) == p.column \in 0..7 /\ p.row \in 0..7

\* C30: a move-code whose source or destination row digit is '9' is decoded
\* to Err(InvalidMove) carrying the move-code, the decoder returns a value
\* for every payload, and the source and destination of every decoded
\* message are on the 8x8 board.
C30_RowNineRejected ==
    decoded.some
        => /\ RowNine(TextMoveCode)
                 => decoded.val = Err([kind |-> "InvalidMove", part |-> TextMoveCode])
           /\ decoded.val.ok \in BOOLEAN
           /\ decoded.val.ok
                 => OnBoard(decoded.val.val.source) /\ OnBoard(decoded.val.val.dest)

\* "E2H90", whose destination row is '9', was decoded with an ongoing game
\* on the standard board: Err(InvalidMove("E2H90")).
C30_Witness ==
    /\ decoded.some
    /\ TextMoveCode = <<69, 50, 72, 57, 48>>
    /\ TextPhaseCode = <<48, 45, 48>>
    /\ WellFormedBoardPart
    /\ decoded.val = Err([kind |-> "InvalidMove", part |-> <<69, 50, 72, 57, 48>>])


\* The ':'-separated parts of the payload, the text behind the identifier
\* and its ':'.
PayloadParts == Cardinality(Colons)

\* C31: a "ChessMOVE" frame decodes only when its payload has exactly 4
\* ':'-separated parts and a "ChessQUIT" frame only when its payload has
\* exactly 2; with any other number of parts, more included, the frame is
\* rejected.
C31_ExactPartCount ==
    (decoded.some /\ decoded.val.ok)
        => /\ decoded.val.val.type = "Move" => PayloadParts = 4
           /\ decoded.val.val.type = "Quit" => PayloadParts = 2


(***************************************************************************)
(* The row iterator alone: FenBoardRowPieces::new(row) is collected, as     *)
(* the tests fen_row_iter and fen_row_invalid_iter do.                      *)
(***************************************************************************)
\* Characters of a row.
MaxRowLen == 3

\* The characters rows are made of: the digits '1', '2', '8', the letters
\* 'p', 'K', and 'x', '9', '0' and U+00E9, which are no tile characters.
RowUnits ==
    {<<49>>, <<50>>, <<56>>, <<112>>, <<75>>, <<120>>, <<57>>, <<48>>, <<195, 169>>}

\* The rows of at most n characters.
RECURSIVE RowsUpTo(_)
RowsUpTo(n) ==
    IF n = 0 THEN {<<>>}
    ELSE With(RowsUpTo(n - 1), LAMBDA shorter :
           shorter \cup {r \o u : r \in shorter, u \in RowUnits})

RowInit ==
    /\ text \in RowsUpTo(MaxRowLen)
    /\ decoded = None
    /\ board = Board_new_empty
    /\ message = None
    /\ frame = None
    /\ parsed = None
    /\ ConnInit
    /\ GameIdle

\* FenBoardRowPieces::new(row).collect::<Vec<_>>()
CollectRow ==
    /\ ~decoded.some
    /\ \E items \in {FenBoardRowPieces_collect(FenBoardRowPieces_new(text))} :
          decoded' = Some(items)
    /\ UNCHANGED <<text, board, message, frame, parsed>>
    /\ UNCHANGED connVars
    /\ UNCHANGED <<gameVars, scan>>

RowNext == CollectRow

RowSpec == RowInit /\ [][RowNext]_vars

\* The items the characters cs stand for, in text order: N empty tiles for
\* a digit N of 1..8, the piece for a piece letter, the character itself as
\* invalid for any other.
RECURSIVE ItemsOf(_)
ItemsOf(cs) ==
    IF cs = <<>> THEN <<>>
    ELSE (CASE cs[1] \in 49..56 -> [k \in 1..(cs[1] - 48) |-> Ok(None)]
            [] cs[1] \in PieceChars -> <<Ok(Some(PieceOfLetter(cs[1])))>>
            [] OTHER -> <<Err([kind |-> "InvalidTileCharacter", ch |-> cs[1]])>>)
         \o ItemsOf(Tail(cs))

\* The sum of the digits 1..8 among cs, and the number of its other
\* characters.
RECURSIVE DigitSum(_)
DigitSum(cs) ==
    IF cs = <<>> THEN 0
    ELSE (IF cs[1] \in 49..56 THEN cs[1] - 48 ELSE 0) + DigitSum(Tail(cs))
NonDigits(cs) == Cardinality({i \in 1..Len(cs) : cs[i] \notin 49..56})

BeganAligned ==
    /\ last.op = "skip"
    /\ HasPrefixAt(last.from.pos)
    /\ last.from.pos + Len(Prefix) <= BufferedEnd

\* The latest call returned found.
Found == last.op = "skip" /\ last.ret = "Some"

\* C33: a call on a reader whose next bytes begin with the prefix returns
\* found and consumes nothing; and once a call has returned found the reader
\* stays where it is: every further call returns found again and leaves the
\* same bytes to read.
C33_AlignedIdempotent ==
    /\ [](BeganAligned => (Found /\ last.to.pos = last.from.pos))
    /\ [][Found => /\ reader' = reader
                   /\ last' # last => (last'.op = "skip" /\ last'.ret = "Some"
                                       /\ last'.from = reader /\ last'.to = reader)]_vars

\* A call that began with bytes in front of the prefix had stopped at the
\* prefix, and the call after it returned found with the reader unmoved.
C33_Witness ==
    /\ Found
    /\ last.from = last.to
    /\ last.from.pos > 0
    /\ last.from.filled >= last.from.pos + Len(Prefix)
    /\ HasPrefixAt(reader.pos)
    /\ reader = last.to


\* The tiles the row iterator makes of a row: N for a digit N of 1..8 and
\* one for every other character, valid or not.
TileCount(row) == DigitSum(chars(row)) + NonDigits(chars(row))

\* The rows (1-based, text order) of the board string that do not come to 8
\* tiles.
MiscountedRows == {i \in 1..Len(TextRows) : TileCount(TextRows[i]) # 8}

\* The characters of the board string that stand for no tile, by their
\* place in the text without its '/', and the first of them.
InvalidPlaces ==
    With(chars(SelectSeq(text, LAMBDA c : c # 47)), LAMBDA cs :
      {k \in 1..Len(cs) : cs[k] \notin TileChars})
FirstInvalidChar ==
    chars(SelectSeq(text, LAMBDA c : c # 47))[Nth(InvalidPlaces, 1)]

\* C34: the decoder's errors have a fixed precedence.  A number of rows
\* other than 8 gives InvalidRowCount whatever the rows hold; else the first
\* row in text order that does not come to 8 tiles, an invalid character
\* counting as one tile, gives InvalidColumnCount with its tile count; else
\* the first invalid character in text order gives InvalidTileCharacter,
\* which is therefore returned only when every row has exactly 8 tiles.
C34_ErrorPrecedence ==
    decoded.some
        => /\ Len(TextRows) # 8
                 => decoded.val = Err([kind |-> "InvalidRowCount", n |-> Len(TextRows)])
           /\ (Len(TextRows) = 8 /\ MiscountedRows # {})
                 => decoded.val = Err([kind |-> "InvalidColumnCount",
                                       n |-> TileCount(TextRows[Nth(MiscountedRows, 1)])])
           /\ (Len(TextRows) = 8 /\ MiscountedRows = {} /\ InvalidPlaces # {})
                 => decoded.val = Err([kind |-> "InvalidTileCharacter",
                                       ch |-> FirstInvalidChar])
           /\ (Len(TextRows) = 8 /\ MiscountedRows = {} /\ InvalidPlaces = {})
                 => decoded.val.ok
           /\ (~decoded.val.ok /\ decoded.val.err.kind = "InvalidTileCharacter")
                 => Len(TextRows) = 8 /\ MiscountedRows = {}

\* Row 1 is "4x3", which comes to 8 tiles with the invalid 'x', and row 8
\* is "9", one tile: the decoder returned InvalidColumnCount(1), not the
\* earlier InvalidTileCharacter('x').
C34_Witness ==
    /\ decoded.some
    /\ Len(TextRows) = 8
    /\ TextRows[1] = <<52, 120, 51>>
    /\ TextRows[8] = <<57>>
    /\ MiscountedRows = {8}
    /\ decoded.val = Err([kind |-> "InvalidColumnCount", n |-> 1])


(***************************************************************************)
(* The board alone: set_tile is called on a board made by new_empty or     *)
(* holding the starting position, and every cell is read back with tile.   *)
(***************************************************************************)
\* set_tile calls on one board.
MaxEdits == 3

\* The 64 positions of the board.
AllPositions == {Pos(c, r) : c \in 0..7, r \in 0..7}

\* The positions written: the four corners, b1 and d5.
WrittenTiles == {Pos(0, 0), Pos(7, 0), Pos(0, 7), Pos(7, 7), Pos(1, 0), Pos(3, 4)}

TileInit ==
    /\ board \in {Board_new_empty, StandardBoard}
    /\ event = [op |-> "init", edits |-> 0]
    /\ game = <<>>
    /\ chan = <<>>
    /\ outlog = <<>>
    /\ shut = {}
    /\ over = {}
    /\ scan = NoScan
    /\ message = None
    /\ frame = None
    /\ parsed = None
    /\ text = <<>>
    /\ decoded = None
    /\ ConnInit

\* board.set_tile(tile, piece)
EditTile(tile, piece) ==
    /\ event.edits < MaxEdits
    /\ board' = Board_set_tile(board, tile, piece)
    /\ event' = [op |-> "set_tile", edits |-> event.edits + 1, tile |-> tile,
                 piece |-> piece, before |-> board]
    /\ UNCHANGED <<message, frame, parsed, text, decoded>>
    /\ UNCHANGED <<game, chan, outlog, shut, over, scan>>
    /\ UNCHANGED connVars

TileNext == \E tile \in WrittenTiles, piece \in EditPieces : EditTile(tile, piece)

TileSpec == TileInit /\ [][TileNext]_vars

\* C35: after set_tile(p, x) the board's tile(p) is x and tile(q) is what it
\* was for each of the other 63 positions q; on a board made by new_empty
\* tile(p) is None for all 64 positions.
C35_CellsIndependent ==
    /\ event.op = "set_tile"
          => /\ Board_tile(board, event.tile) = event.piece
             /\ \A q \in AllPositions \ {event.tile} :
                   Board_tile(board, q) = Board_tile(event.before, q)
    /\ (event.op = "init" /\ board = Board_new_empty)
          => \A q \in AllPositions : Board_tile(board, q) = None
    /\ Cardinality(AllPositions) = 64

\* On the starting position the white queen was put on d5, then h8 was
\* emptied: d5 still holds the queen and a8 its rook.
C35_Witness ==
    /\ event.op = "set_tile"
    /\ event.edits = 2
    /\ event.tile = Pos(7, 7)
    /\ event.piece = None
    /\ Board_tile(event.before, Pos(7, 7)) = Some([kind |-> "Rook", color |-> "Black"])
    /\ Board_tile(board, Pos(7, 7)) = None
    /\ Board_tile(board, Pos(3, 4)) = Some([kind |-> "Queen", color |-> "White"])
    /\ Board_tile(board, Pos(0, 7)) = Some([kind |-> "Rook", color |-> "Black"])


(***************************************************************************)
(* chess_game.rs: PositionIndex and Position applied to bounded inputs.    *)
(* `decoded` is the Option<Position> the latest constructor returned and    *)
(* `event` the latest call with what it returned.                          *)
(***************************************************************************)
\* u8 arguments on both sides of the range's end and of the i8 sign bit.
U8Samples == {0, 1, 6, 7, 8, 9, 127, 128, 248, 255}

\* i8 translations, among them the ones whose sum with 0..7 leaves i8.
I8Samples == {-128, -1, 0, 1, 121, 127}

\* '`' 'a' 'e' 'h' 'i' '@' 'A' 'E' 'H' 'I' '0' '1' '4' '8' '9'
PositionChars == {96, 97, 101, 104, 105, 64, 65, 69, 72, 73, 48, 49, 52, 56, 57}

\* Every pair of PositionChars, and strings of zero, one and three characters:
\* "", "a", "1", "a1x", "e44", " a1", U+00E9 "1", "a" U+00E9.
PositionStrings ==
    {<<a, b>> : a \in PositionChars, b \in PositionChars}
      \cup {<<>>, <<97>>, <<49>>, <<97, 49, 120>>, <<101, 52, 52>>,
            <<32, 97, 49>>, <<195, 169, 49>>, <<97, 195, 169>>}

PositionInit ==
    /\ decoded = None
    /\ text = <<>>
    /\ event = [op |-> "init"]
    /\ board = Board_new_empty
    /\ game = <<>>
    /\ chan = <<>>
    /\ outlog = <<>>
    /\ shut = {}
    /\ over = {}
    /\ scan = NoScan
    /\ message = None
    /\ frame = None
    /\ parsed = None
    /\ ConnInit

PositionIdle ==
    /\ UNCHANGED <<board, message, frame, parsed, text>>
    /\ UNCHANGED <<game, chan, outlog, shut, over, scan>>
    /\ UNCHANGED connVars

\* PositionIndex::new(value)
IndexNew(value) ==
    /\ event' = [op |-> "PositionIndex::new", value |-> value,
                 ret |-> PositionIndex_new(value)]
    /\ UNCHANGED decoded
    /\ PositionIdle

\* Position::new(column, row)
New(column, row) ==
    /\ decoded' = Position_new(column, row)
    /\ event' = [op |-> "new", column |-> column, row |-> row, ret |-> decoded']
    /\ PositionIdle

\* Position::parse(string)
Parse(string) ==
    /\ decoded' = Position_parse(string)
    /\ event' = [op |-> "parse", string |-> string, ret |-> decoded']
    /\ PositionIdle

\* position.translated(translation)
Translated(translation, checked) ==
    /\ decoded.some
    /\ \E r \in {Position_translated(decoded.val, translation, checked)} :
          /\ event' = [op |-> "translated", of |-> decoded.val,
                       translation |-> translation, checked |-> checked,
                       panicked |-> r.panicked, ret |-> r.ret]
          /\ decoded' = IF r.panicked THEN decoded ELSE r.ret
    /\ PositionIdle

\* position.as_other_color()
AsOtherColor ==
    /\ decoded.some
    /\ \E r \in {Position_as_other_color(decoded.val)} :
          /\ event' = [op |-> "as_other_color", of |-> decoded.val,
                       panicked |-> r.panicked, ret |-> r.ret]
          /\ decoded' = Some(r.ret)
    /\ PositionIdle

\* position.to_string(uppercase)
PositionToString(uppercase) ==
    /\ decoded.some
    /\ event' = [op |-> "to_string", of |-> decoded.val, uppercase |-> uppercase,
                 ret |-> Position_to_string(decoded.val, uppercase)]
    /\ UNCHANGED decoded
    /\ PositionIdle

\* The string the latest to_string wrote, to be parsed again.
WrittenString == IF event.op = "to_string" THEN {event.ret} ELSE {}

PositionNext ==
    \/ \E value \in U8Samples : IndexNew(value)
    \/ \E column \in U8Samples, row \in U8Samples : New(column, row)
    \/ \E string \in PositionStrings \cup WrittenString : Parse(string)
    \/ \E translation \in I8Samples \X I8Samples, checked \in BOOLEAN :
          Translated(translation, checked)
    \/ AsOtherColor
    \/ \E uppercase \in BOOLEAN : PositionToString(uppercase)

PositionSpec == PositionInit /\ [][PositionNext]_vars

\* C36: PositionIndex::new(v) and Position::new(c, r) return None when a
\* component is 8 or more, and no Position that new, parse, translated or
\* as_other_color produces has a column or a row outside 0..7.
C36_PositionInRange ==
    /\ event.op = "PositionIndex::new"
          => /\ event.value >= 8 => event.ret = None
             /\ event.ret.some => event.ret.val \in 0..7
    /\ event.op = "new"
          => ((event.column >= 8 \/ event.row >= 8) => event.ret = None)
    /\ event.op \in {"new", "parse", "translated"}
          => (event.ret.some => OnBoard(event.ret.val))
    /\ event.op = "as_other_color" => OnBoard(event.ret)
    /\ decoded.some => OnBoard(decoded.val)

\* A translation whose i8 sum wrapped and one step off the board's edge.
C36_Witness ==
    /\ event.op = "translated"
    /\ ~event.panicked
    /\ event.of.column = 7
    /\ event.translation = <<1, 121>>
    /\ event.ret = None


\* "abcdefgh" and "ABCDEFGH"
ColumnLetters == <<97, 98, 99, 100, 101, 102, 103, 104>>
ColumnCapitals == <<65, 66, 67, 68, 69, 70, 71, 72>>

\* "12345678"
RowDigits == <<49, 50, 51, 52, 53, 54, 55, 56>>

\* The two-character strings [a-hA-H][1-8].
AlgebraicText(string) ==
    /\ Len(string) = 2
    /\ \E k \in 1..8 : string[1] \in {ColumnLetters[k], ColumnCapitals[k]}
    /\ \E k \in 1..8 : string[2] = RowDigits[k]

\* The position a string of AlgebraicText names: a..h are 0..7, 1..8 are 0..7.
AlgebraicPosition(string) ==
    Pos((CHOOSE k \in 1..8 : string[1] \in {ColumnLetters[k], ColumnCapitals[k]}) - 1,
        (CHOOSE k \in 1..8 : string[2] = RowDigits[k]) - 1)

\* C37: parse(p.to_string(uppercase)) is Some(p) for either letter case; parse
\* returns the position that a string of [a-hA-H][1-8] names, with a..h as
\* columns 0..7 and 1..8 as rows 0..7, and None for every other string.
C37_TextRoundTrip ==
    /\ event.op = "to_string"
          => /\ AlgebraicText(event.ret)
             /\ Position_parse(event.ret) = Some(event.of)
    /\ event.op = "parse"
          => event.ret = IF AlgebraicText(event.string)
                         THEN Some(AlgebraicPosition(event.string))
                         ELSE None

\* "H8" written in capitals for the last square and parsed back.
C37_Witness ==
    /\ event.op = "parse"
    /\ event.string = <<72, 56>>
    /\ event.ret = Some(Pos(7, 7))
    /\ Position_to_string(Pos(7, 7), TRUE) = event.string


(***************************************************************************)
(* The length of a Move frame's content: a board is set up with set_tile,  *)
(* among others from one with a piece on each of its 64 tiles, and a Move  *)
(* with that board is serialized.                                          *)
(***************************************************************************)
\* "rnbqkbnr/pppppppp/pppppppp/pppppppp/PPPPPPPP/PPPPPPPP/PPPPPPPP/RNBQKBNR"
CrowdedBoardStr ==
    <<114, 110, 98, 113, 107, 98, 110, 114, 47>>
    \o [i \in 1..27 |-> IF i % 9 = 0 THEN 47 ELSE 112]
    \o [i \in 1..27 |-> IF i % 9 = 0 THEN 47 ELSE 80]
    \o <<82, 78, 66, 81, 75, 66, 78, 82>>

CrowdedBoard == Board_from_str(CrowdedBoardStr).val

\* a1 and h8
CornerSquares == {Pos(0, 0), Pos(7, 7)}

SerializeInit ==
    /\ board \in {Board_new_empty, StandardBoard, CrowdedBoard}
    /\ message = None
    /\ frame = None
    /\ parsed = None
    /\ text = <<>>
    /\ decoded = None
    /\ ConnInit
    /\ GameIdle

SerializeNext ==
    \/ \E tile \in EditTiles, piece \in EditPieces : SetTile(tile, piece)
    \/ \E source \in CornerSquares, dest \in CornerSquares,
          promotion \in {None, Some("Queen")}, phase \in GamePhases :
          RoundTripMove(source, dest, promotion, phase)

SerializeSpec == SerializeInit /\ [][SerializeNext]_vars

\* The Move that was serialized, and its content before the padding.
MoveSerialized == message.some /\ message.val.type = "Move"
MoveContent == Content(message.val)

\* C38: the content of a serialized Move is "ChessMOVE:", a move-code of 5
\* characters, ':', a phase-code of 3, ':', a board of at most 71 and ':',
\* at most 92 bytes in all; serialize does not fail on it and at least 36
\* filler bytes '0' follow it in the frame.
C38_MoveBelowCeiling ==
    MoveSerialized
    => /\ Len(Board_encode(message.val.move.board)) <= 71
       /\ Len(MoveContent) = 10 + 5 + 1 + 3 + 1
                               + Len(Board_encode(message.val.move.board)) + 1
       /\ MoveContent[16] = 58 /\ MoveContent[20] = 58
       /\ Len(MoveContent) <= 92
       /\ frame.val.ok
       /\ Len(frame.val.val) = FrameLen
       /\ SubSeq(frame.val.val, 1, Len(MoveContent)) = MoveContent
       /\ FrameLen - Len(MoveContent) >= 36
       /\ \A k \in (Len(MoveContent) + 1)..FrameLen : frame.val.val[k] = 48

\* A Move with a piece on every tile of its board: 92 bytes of content and
\* 36 of filler.
C38_Witness ==
    /\ MoveSerialized
    /\ Len(Board_encode(message.val.move.board)) = 71
    /\ Len(MoveContent) = 92
    /\ frame.val.ok

============================================================================
